---- MODULE Spec2Model ----
(***************************************************************************)
(* Workflow execution engine of NamahAI: the execute route (graph build,   *)
(* Kahn scheduling, input resolution, per-kind execution, run tracking),   *)
(* the start route's run creation and the workflow save route.             *)
(***************************************************************************)
EXTENDS Integers, Sequences, FiniteSets, TLC

\* ------------------------------------------------------------------ bounds
MaxNodes == 3
MaxEdges == 3
MaxRunNodes == 2
MaxRunEdges == 2
MaxProducers == 2
MaxFanInEdges == 2
MaxSaveNodes == 2

\* ------------------------------------------------------- JavaScript values
\* A string is a sequence of tokens (a prefix token such as "https://" and
\* payload tokens); null and undefined are values of their own.
Null == [t |-> "null"]
Undef == [t |-> "undef"]
Str(s) == [t |-> "str", s |-> s]
Arr(a) == [t |-> "arr", a |-> a]
EmptyBag == [k \in {} |-> Null]

IsStr(v) == v.t = "str"
IsArray(v) == v.t = "arr"
Truthy(v) == IF v.t = "str" THEN v.s # <<>> ELSE v.t = "arr"
Or(a, b) == IF Truthy(a) THEN a ELSE b
Get(bag, k) == IF k \in DOMAIN bag THEN bag[k] ELSE Undef
Put(bag, k, v) == [x \in DOMAIN bag \cup {k} |-> IF x = k THEN v ELSE bag[x]]
Assign(a, b) == [x \in DOMAIN a \cup DOMAIN b |-> IF x \in DOMAIN b THEN b[x] ELSE a[x]]

\* The number of characters of a token; "BIG" stands for a long payload.
TokLen(tok) ==
  CASE tok = "http://" -> 7
    [] tok = "https://" -> 8
    [] tok = "data:" -> 5
    [] tok = "image/" -> 6
    [] tok = "/9j/" -> 4
    [] tok = "iVBOR" -> 5
    [] tok = "BIG" -> 1000
    [] OTHER -> 2

RECURSIVE SumLen(_)
SumLen(s) == IF s = <<>> THEN 0 ELSE TokLen(Head(s)) + SumLen(Tail(s))

StrLength(v) == SumLen(v.s)

StartsWith(v, p) == Len(v.s) >= Len(p) /\ SubSeq(v.s, 1, Len(p)) = p

ImagePrefixes ==
  { <<"http://">>, <<"https://">>, <<"data:", "image/">>, <<"/9j/">>, <<"iVBOR">> }

isValidImage(img) ==
  IF ~Truthy(img) \/ ~IsStr(img) THEN FALSE
  ELSE \E p \in ImagePrefixes : StartsWith(img, p)

\* ------------------------------------------------------------ Map objects
\* A Map keeps its keys in insertion order.
NewMap == [keys |-> <<>>, vals |-> <<>>]
Range(s) == { s[k] : k \in DOMAIN s }
MapHas(m, k) == k \in Range(m.keys)
MapGet(m, k, dflt) == IF MapHas(m, k) THEN m.vals[k] ELSE dflt
MapSet(m, k, v) ==
  [keys |-> IF MapHas(m, k) THEN m.keys ELSE Append(m.keys, k),
   vals |-> [x \in Range(m.keys) \cup {k} |-> IF x = k THEN v ELSE m.vals[x]]]

\* ------------------------------------------------------------ GraphBuilder
RECURSIVE InitGraph(_, _)
InitGraph(ns, g) ==
  IF ns = <<>> THEN g
  ELSE InitGraph(Tail(ns),
         [adjList |-> MapSet(g.adjList, Head(ns).id, <<>>),
          inDegree |-> MapSet(g.inDegree, Head(ns).id, 0)])

\* The in-degree counted on the edge's source.
RECURSIVE AddEdgesSwapped(_, _)
AddEdgesSwapped(es, g) ==
  IF es = <<>> THEN g
  ELSE LET edge == Head(es)
           targets == Append(MapGet(g.adjList, edge.sourceId, <<>>), edge.targetId)
       IN AddEdgesSwapped(Tail(es),
            [adjList |-> MapSet(g.adjList, edge.sourceId, targets),
             inDegree |-> MapSet(g.inDegree, edge.sourceId,
                                 MapGet(g.inDegree, edge.sourceId, 0) + 1)])

RECURSIVE AddEdges(_, _)
AddEdges(es, g) ==
  IF es = <<>> THEN g
  ELSE LET edge == Head(es)
           targets == Append(MapGet(g.adjList, edge.sourceId, <<>>), edge.targetId)
       IN AddEdges(Tail(es),
            [adjList |-> MapSet(g.adjList, edge.sourceId, targets),
             inDegree |-> MapSet(g.inDegree, edge.targetId,
                                 MapGet(g.inDegree, edge.targetId, 0) + 1)])

BuildGraph(ns, es) ==
  AddEdges(es, InitGraph(ns, [adjList |-> NewMap, inDegree |-> NewMap]))

\* --------------------------------------------------------------- Scheduler
SeedQueue(inDeg) ==
  SelectSeq(inDeg.keys, LAMBDA k : inDeg.vals[k] = 0)

\* (inDegree.get(neighbor) || 1) - 1: an absent or zero count reads as 1.
NewDegree(inDeg, neighbor) ==
  LET d == MapGet(inDeg, neighbor, 0) IN (IF d = 0 THEN 1 ELSE d) - 1

\* Every successor enqueued, whatever its in-degree.
RECURSIVE RelaxAlways(_, _)
RelaxAlways(neighbors, st) ==
  IF neighbors = <<>> THEN st
  ELSE LET neighbor == Head(neighbors)
           newDegree == NewDegree(st.inDegree, neighbor)
       IN RelaxAlways(Tail(neighbors),
            [inDegree |-> MapSet(st.inDegree, neighbor, newDegree),
             queue |-> Append(st.queue, neighbor)])

\* A stack in place of the queue: a released node goes to the front.
RECURSIVE RelaxFront(_, _)
RelaxFront(neighbors, st) ==
  IF neighbors = <<>> THEN st
  ELSE LET neighbor == Head(neighbors)
           newDegree == NewDegree(st.inDegree, neighbor)
       IN RelaxFront(Tail(neighbors),
            [inDegree |-> MapSet(st.inDegree, neighbor, newDegree),
             queue |-> IF newDegree = 0 THEN <<neighbor>> \o st.queue
                       ELSE st.queue])

RECURSIVE Relax(_, _)
Relax(neighbors, st) ==
  IF neighbors = <<>> THEN st
  ELSE LET neighbor == Head(neighbors)
           newDegree == NewDegree(st.inDegree, neighbor)
       IN Relax(Tail(neighbors),
            [inDegree |-> MapSet(st.inDegree, neighbor, newDegree),
             queue |-> IF newDegree = 0 THEN Append(st.queue, neighbor)
                       ELSE st.queue])

RECURSIVE KahnLoop(_, _, _, _)
KahnLoop(queue, order, inDeg, adj) ==
  IF queue = <<>> THEN [order |-> order, inDegree |-> inDeg]
  ELSE LET nodeId == Head(queue)
           st == Relax(MapGet(adj, nodeId, <<>>),
                       [inDegree |-> inDeg, queue |-> Tail(queue)])
       IN KahnLoop(st.queue, Append(order, nodeId), st.inDegree, adj)

\* The nodes Kahn's loop never reached, appended to the order.
TopoSortAppendRest(g) ==
  LET r == KahnLoop(SeedQueue(g.inDegree), <<>>, g.inDegree, g.adjList)
  IN [order |-> r.order \o SelectSeq(g.inDegree.keys,
                                     LAMBDA k : k \notin Range(r.order)),
      inDegree |-> r.inDegree]

TopoSort(g) == KahnLoop(SeedQueue(g.inDegree), <<>>, g.inDegree, g.adjList)

\* ----------------------------------------------------------- InputResolver
Status(name) == Str(<<name>>)
NoHandle == ""

\* Only the image field read.
CandidateImageOnly(parentOutput) == Get(parentOutput, "image")

Candidate(parentOutput) ==
  Or(Or(Or(Get(parentOutput, "image"), Get(parentOutput, "output")),
        Get(parentOutput, "text")),
     Get(parentOutput, "url"))

\* The skip test without the undefined case.
EdgeSkippedNoUndef(parentOutput) ==
  LET val == Candidate(parentOutput) IN
    \/ val = Null
    \/ val = Str(<<>>)
    \/ Get(parentOutput, "status") = Status("no_input")
    \/ Get(parentOutput, "status") = Status("not_extracted")

EdgeSkipped(parentOutput) ==
  LET val == Candidate(parentOutput) IN
    \/ val = Null
    \/ val = Undef
    \/ val = Str(<<>>)
    \/ Get(parentOutput, "status") = Status("no_input")
    \/ Get(parentOutput, "status") = Status("not_extracted")

\* if (!nodeInputs.images) nodeInputs.images = [];
EnsureImages(nodeInputs) ==
  IF Truthy(Get(nodeInputs, "images")) THEN nodeInputs
  ELSE Put(nodeInputs, "images", Arr(<<>>))

\* The new images put in front of the list (unshift).
PushImagesFront(nodeInputs, vs) ==
  Put(nodeInputs, "images", Arr(vs \o nodeInputs["images"].a))

PushImages(nodeInputs, vs) ==
  Put(nodeInputs, "images", Arr(nodeInputs["images"].a \o vs))

HandleLimit == 1000

\* Every value pushed, valid image or not.
RouteImagesUnfiltered(nodeInputs, val) ==
  LET ni == EnsureImages(nodeInputs) IN
    IF IsArray(val) THEN PushImages(ni, val.a) ELSE PushImages(ni, <<val>>)

RouteImages(nodeInputs, val) ==
  LET ni == EnsureImages(nodeInputs) IN
    IF IsArray(val)
      THEN PushImages(ni, SelectSeq(val.a, LAMBDA v : Truthy(v) /\ isValidImage(v)))
    ELSE IF isValidImage(val) THEN PushImages(ni, <<val>>)
    ELSE ni

\* Only the handle's own field is set.
RouteImageHandleOnly(nodeInputs, handle, val) ==
  LET ni == EnsureImages(Put(nodeInputs, handle, val)) IN
    IF isValidImage(val) THEN PushImages(ni, <<val>>) ELSE ni

RouteImage(nodeInputs, handle, val) ==
  LET ni == EnsureImages(Put(Put(nodeInputs, "image", val), handle, val)) IN
    IF isValidImage(val) THEN PushImages(ni, <<val>>) ELSE ni

\* The candidate assigned under the handle whatever its kind and size.
RouteNamedAlwaysAssign(nodeInputs, handle, val) ==
  IF isValidImage(val)
    THEN Put(PushImages(EnsureImages(nodeInputs), <<val>>), handle, val)
  ELSE Put(nodeInputs, handle, val)

RouteNamed(nodeInputs, handle, val) ==
  IF isValidImage(val)
    THEN LET ni == PushImages(EnsureImages(nodeInputs), <<val>>) IN
           IF ~StartsWith(val, <<"data:">>) /\ StrLength(val) < HandleLimit
             THEN Put(ni, handle, val)
           ELSE ni
  ELSE Put(nodeInputs, handle, val)

RouteMerge(nodeInputs, parentOutput) ==
  LET ni == Assign(nodeInputs, parentOutput)
      image == Get(parentOutput, "image")
  IN IF Truthy(image) /\ isValidImage(image)
       THEN PushImages(EnsureImages(ni), <<image>>)
     ELSE ni

ApplyEdge(nodeInputs, edge, outs) ==
  IF edge.sourceId \notin DOMAIN outs THEN nodeInputs
  ELSE LET parentOutput == outs[edge.sourceId]
           val == Candidate(parentOutput)
       IN IF EdgeSkipped(parentOutput) THEN nodeInputs
          ELSE IF edge.targetHandle = "images" THEN RouteImages(nodeInputs, val)
          ELSE IF edge.targetHandle \in {"image", "image_url"}
            THEN RouteImage(nodeInputs, edge.targetHandle, val)
          ELSE IF edge.targetHandle # NoHandle
            THEN RouteNamed(nodeInputs, edge.targetHandle, val)
          ELSE RouteMerge(nodeInputs, parentOutput)

\* The edges applied from the last to the first.
RECURSIVE FoldEdgesReversed(_, _, _)
FoldEdgesReversed(nodeInputs, es, outs) ==
  IF es = <<>> THEN nodeInputs
  ELSE ApplyEdge(FoldEdgesReversed(nodeInputs, Tail(es), outs), Head(es), outs)

RECURSIVE FoldEdges(_, _, _)
FoldEdges(nodeInputs, es, outs) ==
  IF es = <<>> THEN nodeInputs
  ELSE FoldEdges(ApplyEdge(nodeInputs, Head(es), outs), Tail(es), outs)

IncomingEdges(es, nodeId) == SelectSeq(es, LAMBDA e : e.targetId = nodeId)

ResolveInputs(runInputs, config, es, nodeId, outs) ==
  FoldEdges(Assign(runInputs, config), IncomingEdges(es, nodeId), outs)

\* ------------------------------------------------------------ NodeExecutor
DefaultModel == Str(<<"gemini-2.5-flash">>)

FullPrompt(nodeInputs, config) ==
  LET system == Or(Or(Get(nodeInputs, "systemPrompt"), Get(nodeInputs, "system")),
                   Get(config, "systemPrompt"))
      user == Or(Or(Or(Get(nodeInputs, "userPrompt"), Get(nodeInputs, "user")),
                    Get(nodeInputs, "prompt")),
                 Get(config, "prompt"))
      p1 == IF Truthy(system) THEN <<"System: ">> \o system.s \o <<"\n\n">> ELSE <<>>
      p2 == IF Truthy(user) THEN p1 \o <<"User: ">> \o user.s ELSE p1
  IN IF p2 = <<>> THEN Str(<<"Hello">>) ELSE Str(p2)

LlmImages(nodeInputs) ==
  LET rawImages == Or(Get(nodeInputs, "images"), Arr(<<>>))
  IN SelectSeq(rawImages.a, isValidImage)

\* Every llm node sent down the text path.
LlmCallTextOnly(nodeInputs, config) ==
  [fn |-> "generateText", prompt |-> FullPrompt(nodeInputs, config),
   images |-> <<>>, model |-> Or(Get(config, "model"), DefaultModel)]

\* The generation call an llm node makes.
LlmCall(nodeInputs, config) ==
  LET images == LlmImages(nodeInputs)
      model == Or(Get(config, "model"), DefaultModel)
  IN IF Len(images) > 0
       THEN [fn |-> "generateVision", prompt |-> FullPrompt(nodeInputs, config),
             images |-> images, model |-> model]
     ELSE [fn |-> "generateText", prompt |-> FullPrompt(nodeInputs, config),
           images |-> <<>>, model |-> model]

LlmOutput(result) == [output |-> result, text |-> result]

TextOutput(config) ==
  LET content == Or(Or(Get(config, "content"), Get(config, "text")), Str(<<>>))
  IN [output |-> content, text |-> content]

ImageOutput(config) ==
  LET imageUrl == Or(Or(Get(config, "imageUrl"), Get(config, "url")), Str(<<>>))
      imageBase64 == Or(Get(config, "imageBase64"), Str(<<>>))
      imageOutput == Or(imageBase64, imageUrl)
  IN [output |-> imageOutput, url |-> imageUrl, imageBase64 |-> imageBase64,
      image |-> imageOutput]

VideoOutput(config) ==
  LET videoUrl == Or(Or(Get(config, "videoUrl"), Get(config, "url")), Str(<<>>))
  IN [output |-> videoUrl, url |-> videoUrl]

FirstImage(nodeInputs) ==
  LET images == Get(nodeInputs, "images")
  IN IF IsArray(images) /\ Len(images.a) > 0 THEN images.a[1] ELSE Undef

\* The empty result without its status.
CropOutputNoStatus(nodeInputs, config) ==
  LET croppedUrl == Get(config, "croppedImageUrl")
      inputImage == Or(Or(Or(Get(nodeInputs, "image"), Get(nodeInputs, "image_url")),
                          FirstImage(nodeInputs)),
                       Get(nodeInputs, "url"))
  IN IF Truthy(croppedUrl) /\ isValidImage(croppedUrl)
       THEN [output |-> croppedUrl, url |-> croppedUrl, image |-> croppedUrl]
     ELSE IF Truthy(inputImage) /\ isValidImage(inputImage)
       THEN [output |-> inputImage, url |-> inputImage, image |-> inputImage]
     ELSE [output |-> Null]

CropOutput(nodeInputs, config) ==
  LET croppedUrl == Get(config, "croppedImageUrl")
      inputImage == Or(Or(Or(Get(nodeInputs, "image"), Get(nodeInputs, "image_url")),
                          FirstImage(nodeInputs)),
                       Get(nodeInputs, "url"))
  IN IF Truthy(croppedUrl) /\ isValidImage(croppedUrl)
       THEN [output |-> croppedUrl, url |-> croppedUrl, image |-> croppedUrl]
     ELSE IF Truthy(inputImage) /\ isValidImage(inputImage)
       THEN [output |-> inputImage, url |-> inputImage, image |-> inputImage]
     ELSE [output |-> Null, status |-> Status("no_input")]

\* A node without a frame falls back to its video.
ExtractOutputVideo(config) ==
  LET extractedUrl == Get(config, "extractedFrameUrl")
  IN IF Truthy(extractedUrl) /\ isValidImage(extractedUrl)
       THEN [output |-> extractedUrl, url |-> extractedUrl, image |-> extractedUrl]
     ELSE [output |-> Str(<<"https://", "video">>), status |-> Status("extracted")]

ExtractOutput(config) ==
  LET extractedUrl == Get(config, "extractedFrameUrl")
  IN IF Truthy(extractedUrl) /\ isValidImage(extractedUrl)
       THEN [output |-> extractedUrl, url |-> extractedUrl, image |-> extractedUrl]
     ELSE [output |-> Null, status |-> Status("not_extracted"),
           message |-> Str(<<"Click 'Extract Frame' on the node first">>)]

\* The output of every kind that calls no collaborator.
LocalOutput(type, nodeInputs, config) ==
  CASE type = "text" -> TextOutput(config)
    [] type = "image" -> ImageOutput(config)
    [] type = "video" -> VideoOutput(config)
    [] type = "crop" -> CropOutput(nodeInputs, config)
    [] type = "extract" -> ExtractOutput(config)
    [] OTHER -> [output |-> Null, status |-> Status("unknown_type")]

FailedOutput(errorMsg) == [error |-> Str(<<errorMsg>>), status |-> Status("failed")]

\* ------------------------------------------------------------------- state
VARIABLES
  dbNodes,          \* WorkflowNode rows of the workflow, in the order they are read
  dbEdges,          \* WorkflowEdge rows of the workflow
  dbDefinition,     \* the workflow row's definition column
  runStatus,        \* status of the WorkflowRun row; "NONE" while there is no row
  nodeExecutions,   \* NodeExecution rows
  pc,               \* position of the request handler
  route,            \* the route that serves the request
  nodes, edges,     \* the handler's copy of the workflow graph
  inputs,           \* the run inputs of the request body
  runExecs,         \* run.nodeExecutions as returned by workflowRun.create
  graph,            \* adjList and inDegree
  executionOrder,
  nodeOutputs,
  i,                \* index of the loop over executionOrder
  nodeInputs,       \* input bag of the node being executed
  call,             \* the awaited generation call
  response,         \* HTTP status of the response, 0 while there is none
  request,          \* the authenticated user and the body of the request served
  queue,            \* the queue of Kahn's loop while the loop is followed step by step
  \* the runtime store of the editor and its poller
  runId, isRunning, nodeStatuses, executionScope, errors, runs,
  startPc,          \* position of startRun
  timer,            \* the interval pollRun sets: "none", "active" or "cleared"
  polls,            \* position of every interval callback started so far
  listFetches,      \* fetchRuns calls that await their response
  timer2, polls2,   \* the interval and the callbacks of a second pollRun call
  peer,             \* the locals of a second execute request served at the same time
  editor,           \* the editor store: nodes, edges, history, historyIndex
  lastSave          \* who made the last save request and the status it was answered with

vars == <<dbNodes, dbEdges, dbDefinition, runStatus, nodeExecutions, pc, route,
          nodes, edges, inputs, runExecs, graph, executionOrder, nodeOutputs, i,
          nodeInputs, call, response, request, queue, runId, isRunning, nodeStatuses,
          executionScope, errors, runs, startPc, timer, polls, listFetches,
          timer2, polls2, peer, editor, lastSave>>

storeVars == <<runId, isRunning, nodeStatuses, executionScope, errors, runs, startPc,
               timer, polls, listFetches>>
engineVars == <<dbNodes, dbEdges, dbDefinition, runStatus, nodeExecutions, pc, route,
                nodes, edges, inputs, runExecs, graph, executionOrder, nodeOutputs, i,
                nodeInputs, call, response, request, queue>>
restVars == <<timer2, polls2, peer, editor, lastSave>>
dbVars == <<dbNodes, dbEdges, dbDefinition>>
loopVars == <<graph, executionOrder, nodeOutputs, i, nodeInputs, call>>

WorkflowId == "w1"
Owner == "u1"
NoCall == [fn |-> "none"]
NoGraph == [adjList |-> NewMap, inDegree |-> NewMap]
NoRequest == [userId |-> "", workflowId |-> "", inputs |-> EmptyBag]

\* A request: the authenticated user ("" when there is none) and the body.
Requests ==
  [userId : {"u1", "u2", ""}, workflowId : {"w1", "w2", ""}, inputs : {EmptyBag}]

\* The checks without the ownership check.
RejectionNoOwner(req) ==
  IF req.userId = "" THEN 401
  ELSE IF req.workflowId = "" THEN 400
  ELSE IF req.workflowId # WorkflowId THEN 404
  ELSE 0

\* auth, body check, workflow.findUnique and the ownership check.
Rejection(req) ==
  IF req.userId = "" THEN 401
  ELSE IF req.workflowId = "" THEN 400
  ELSE IF req.workflowId # WorkflowId THEN 404
  ELSE IF req.userId # Owner THEN 403
  ELSE 0

NodeIdsOf(ns) == { ns[k].id : k \in DOMAIN ns }

\* nodes.map((node) => ({ nodeId: node.id, status: "PENDING" }))
NewExecutions(ns) ==
  { [id |-> k, nodeId |-> ns[k].id, status |-> "PENDING", error |-> Null,
     inputs |-> Null, outputs |-> Null] : k \in DOMAIN ns }

ExecIdOf(execs, nodeId) ==
  LET hits == { k \in DOMAIN execs : execs[k].nodeId = nodeId }
  IN IF hits = {} THEN 0
     ELSE execs[CHOOSE k \in hits : \A j \in hits : k >= j].id

\* prisma.nodeExecution.update({ where: { id } }) throws when the row is gone.
RowExists(id) == \E r \in nodeExecutions : r.id = id

\* An update whose where clause selects every row.
UpdateRowAll(id, status, error, ins, outs) ==
  { [id |-> r.id, nodeId |-> r.nodeId, status |-> status, error |-> error,
     inputs |-> ins, outputs |-> outs] : r \in nodeExecutions }

UpdateRow(id, status, error, ins, outs) ==
  { IF r.id = id
      THEN [id |-> r.id, nodeId |-> r.nodeId, status |-> status, error |-> error,
            inputs |-> ins, outputs |-> outs]
    ELSE r : r \in nodeExecutions }

\* ----------------------------------------------------------- execute route
ExecReject ==
  /\ pc = "idle"
  /\ \E req \in Requests :
       /\ Rejection(req) # 0
       /\ response' = Rejection(req)
       /\ request' = req
  /\ pc' = "rejected"
  /\ route' = "execute"
  /\ UNCHANGED <<storeVars, restVars, queue, dbVars, runStatus, nodeExecutions, nodes, edges, inputs, runExecs,
                 loopVars>>

ExecLoad ==
  /\ pc = "idle"
  /\ \E req \in Requests :
       /\ Rejection(req) = 0
       /\ inputs' = req.inputs
       /\ request' = req
  /\ nodes' = dbNodes
  /\ edges' = dbEdges
  /\ pc' = "loaded"
  /\ route' = "execute"
  /\ UNCHANGED <<storeVars, restVars, queue, dbVars, runStatus, nodeExecutions, runExecs, loopVars, response>>

\* workflowRun.create with its nested node executions; a node execution whose
\* node row is gone violates the foreign key and the create throws.
\* The run created with the start route's status.
ExecCreateRunPending ==
  /\ pc = "loaded"
  /\ route = "execute"
  /\ runStatus' = "PENDING"
  /\ nodeExecutions' = nodeExecutions \cup NewExecutions(nodes)
  /\ runExecs' = [k \in DOMAIN nodes |-> [id |-> k, nodeId |-> nodes[k].id]]
  /\ pc' = "created"
  /\ UNCHANGED <<storeVars, restVars, queue, request, dbVars, route, nodes, edges, inputs, loopVars, response>>

ExecCreateRun ==
  /\ pc = "loaded"
  /\ route = "execute"
  /\ IF NodeIdsOf(nodes) \subseteq NodeIdsOf(dbNodes)
       THEN /\ runStatus' = "RUNNING"
            /\ nodeExecutions' = nodeExecutions \cup NewExecutions(nodes)
            /\ runExecs' = [k \in DOMAIN nodes |-> [id |-> k, nodeId |-> nodes[k].id]]
            /\ pc' = "created"
            /\ UNCHANGED response
     ELSE /\ pc' = "error"
          /\ response' = 500
          /\ UNCHANGED <<runStatus, nodeExecutions, runExecs>>
  /\ UNCHANGED <<storeVars, restVars, queue, request, dbVars, route, nodes, edges, inputs, loopVars>>

ExecSchedule ==
  /\ pc = "created"
  /\ route = "execute"
  /\ LET g == BuildGraph(nodes, edges)
         sorted == TopoSort(g)
     IN /\ graph' = [adjList |-> g.adjList, inDegree |-> sorted.inDegree]
        /\ executionOrder' = sorted.order
  /\ nodeOutputs' = EmptyBag
  /\ i' = 1
  /\ pc' = "loop"
  /\ UNCHANGED <<storeVars, restVars, queue, request, dbVars, runStatus, nodeExecutions, route, nodes, edges, inputs,
                 runExecs, nodeInputs, call, response>>

\* nodes.find((n) => n.id === nodeId)
FindNode(nodeId) ==
  LET hits == { k \in DOMAIN nodes : nodes[k].id = nodeId }
  IN nodes[CHOOSE k \in hits : \A j \in hits : k <= j]

\* An id of the order is passed over (continue) when it has no node or no
\* node execution.
Runnable(nodeId) == nodeId \in NodeIdsOf(nodes) /\ ExecIdOf(runExecs, nodeId) # 0

RECURSIVE NextRunnable(_)
NextRunnable(j) ==
  IF j > Len(executionOrder) THEN j
  ELSE IF Runnable(executionOrder[j]) THEN j
  ELSE NextRunnable(j + 1)

CurrentId == executionOrder[i]
CurrentExec == ExecIdOf(runExecs, CurrentId)

\* The update to RUNNING is outside the node's try block: when it throws, the
\* handler's outer catch answers 500.
MarkRunning ==
  /\ pc = "loop"
  /\ LET j == NextRunnable(i) IN
       /\ j <= Len(executionOrder)
       /\ i' = j
       /\ LET id == ExecIdOf(runExecs, executionOrder[j]) IN
            IF RowExists(id)
              THEN /\ nodeExecutions' =
                        UpdateRow(id, "RUNNING", Null, Null, Null)
                   /\ pc' = "running"
                   /\ UNCHANGED response
            ELSE /\ pc' = "error"
                 /\ response' = 500
                 /\ UNCHANGED nodeExecutions
  /\ UNCHANGED <<storeVars, restVars, queue, request, dbVars, runStatus, route, nodes, edges, inputs, runExecs, graph,
                 executionOrder, nodeOutputs, nodeInputs, call>>

\* nodeOutputs.set and the update to COMPLETED; when the update throws, the
\* node's catch block overwrites the output and its own update throws too.
Complete(ins, output) ==
  IF RowExists(CurrentExec)
    THEN /\ nodeOutputs' = Put(nodeOutputs, CurrentId, output)
         /\ nodeExecutions' = UpdateRow(CurrentExec, "COMPLETED", Null, ins, output)
         /\ i' = i + 1
         /\ pc' = "loop"
         /\ UNCHANGED response
  ELSE /\ nodeOutputs' = Put(nodeOutputs, CurrentId, FailedOutput("P2025"))
       /\ pc' = "error"
       /\ response' = 500
       /\ UNCHANGED <<nodeExecutions, i>>

\* A catch block that records no error text.
FailSilent(errorMsg) ==
  /\ nodeOutputs' = Put(nodeOutputs, CurrentId, FailedOutput(errorMsg))
  /\ nodeExecutions' = UpdateRow(CurrentExec, "FAILED", Null, Null, Null)
  /\ i' = i + 1
  /\ pc' = "loop"
  /\ UNCHANGED response

\* A catch block that leaves the loop.
FailBreak(errorMsg) ==
  /\ nodeOutputs' = Put(nodeOutputs, CurrentId, FailedOutput(errorMsg))
  /\ nodeExecutions' = UpdateRow(CurrentExec, "FAILED", Str(<<errorMsg>>), Null, Null)
  /\ i' = Len(executionOrder) + 1
  /\ pc' = "loop"
  /\ UNCHANGED response

\* A catch block that marks the node SKIPPED.
FailSkipped(errorMsg) ==
  /\ nodeOutputs' = Put(nodeOutputs, CurrentId, FailedOutput(errorMsg))
  /\ nodeExecutions' = UpdateRow(CurrentExec, "SKIPPED", Str(<<errorMsg>>), Null, Null)
  /\ i' = i + 1
  /\ pc' = "loop"
  /\ UNCHANGED response

\* The catch block of a node: nodeOutputs.set and the update to FAILED.
Fail(errorMsg) ==
  /\ nodeOutputs' = Put(nodeOutputs, CurrentId, FailedOutput(errorMsg))
  /\ IF RowExists(CurrentExec)
       THEN /\ nodeExecutions' =
                 UpdateRow(CurrentExec, "FAILED", Str(<<errorMsg>>), Null, Null)
            /\ i' = i + 1
            /\ pc' = "loop"
            /\ UNCHANGED response
     ELSE /\ pc' = "error"
          /\ response' = 500
          /\ UNCHANGED <<nodeExecutions, i>>

\* A node of a kind that calls no collaborator.
ExecuteLocal ==
  /\ pc = "running"
  /\ FindNode(CurrentId).type # "llm"
  /\ LET node == FindNode(CurrentId)
         ins == ResolveInputs(inputs, node.config, edges, CurrentId, nodeOutputs)
     IN /\ nodeInputs' = ins
        /\ Complete(ins, LocalOutput(node.type, ins, node.config))
  /\ UNCHANGED <<storeVars, restVars, queue, request, dbVars, runStatus, route, nodes, edges, inputs, runExecs, graph,
                 executionOrder, call>>

\* An llm node resolves its inputs and awaits the generation call.
ExecuteLlm ==
  /\ pc = "running"
  /\ FindNode(CurrentId).type = "llm"
  /\ LET node == FindNode(CurrentId)
         ins == ResolveInputs(inputs, node.config, edges, CurrentId, nodeOutputs)
     IN /\ nodeInputs' = ins
        /\ call' = LlmCall(ins, node.config)
  /\ pc' = "gen"
  /\ UNCHANGED <<storeVars, restVars, queue, request, dbVars, runStatus, nodeExecutions, route, nodes, edges, inputs,
                 runExecs, graph, executionOrder, nodeOutputs, i, response>>

\* What the generation collaborator answers, and the messages it fails with.
GenResults == { Str(<<"generated">>), Str(<<>>) }
GenErrors == { "quota exceeded" }

GenReturn ==
  /\ pc = "gen"
  /\ \E result \in GenResults : Complete(nodeInputs, LlmOutput(result))
  /\ call' = NoCall
  /\ UNCHANGED <<storeVars, restVars, queue, request, dbVars, runStatus, route, nodes, edges, inputs, runExecs, graph,
                 executionOrder, nodeInputs>>

GenThrow ==
  /\ pc = "gen"
  /\ \E errorMsg \in GenErrors : Fail(errorMsg)
  /\ call' = NoCall
  /\ UNCHANGED <<storeVars, restVars, queue, request, dbVars, runStatus, route, nodes, edges, inputs, runExecs, graph,
                 executionOrder, nodeInputs>>

\* Success required of every node, not only an attempt.
allCompletedStrict ==
  \A k \in DOMAIN runExecs :
     /\ runExecs[k].nodeId \in DOMAIN nodeOutputs
     /\ "error" \notin DOMAIN nodeOutputs[runExecs[k].nodeId]

\* run.nodeExecutions.every((e) => nodeOutputs.has(e.nodeId))
allCompleted ==
  \A k \in DOMAIN runExecs : runExecs[k].nodeId \in DOMAIN nodeOutputs

Finalize ==
  /\ pc = "loop"
  /\ NextRunnable(i) > Len(executionOrder)
  /\ runStatus' = IF allCompleted THEN "COMPLETED" ELSE "FAILED"
  /\ i' = NextRunnable(i)
  /\ pc' = "done"
  /\ response' = 200
  /\ UNCHANGED <<storeVars, restVars, queue, request, dbVars, nodeExecutions, route, nodes, edges, inputs, runExecs,
                 graph, executionOrder, nodeOutputs, nodeInputs, call>>

\* ------------------------------------------------------------- start route
StartReject ==
  /\ pc = "idle"
  /\ \E req \in Requests :
       /\ Rejection(req) # 0
       /\ response' = Rejection(req)
       /\ request' = req
  /\ pc' = "rejected"
  /\ route' = "start"
  /\ UNCHANGED <<storeVars, restVars, queue, dbVars, runStatus, nodeExecutions, nodes, edges, inputs, runExecs,
                 loopVars>>

StartLoad ==
  /\ pc = "idle"
  /\ \E req \in Requests :
       /\ Rejection(req) = 0
       /\ inputs' = req.inputs
       /\ request' = req
  /\ nodes' = dbNodes
  /\ pc' = "loaded"
  /\ route' = "start"
  /\ UNCHANGED <<storeVars, restVars, queue, dbVars, runStatus, nodeExecutions, edges, runExecs, loopVars,
                 response>>

\* The run is created PENDING and handed to runWorkflowEngine, which the
\* route does not await; the response carries the run id.
StartCreateRun ==
  /\ pc = "loaded"
  /\ route = "start"
  /\ IF NodeIdsOf(nodes) \subseteq NodeIdsOf(dbNodes)
       THEN /\ runStatus' = "PENDING"
            /\ nodeExecutions' = nodeExecutions \cup NewExecutions(nodes)
            /\ runExecs' = [k \in DOMAIN nodes |-> [id |-> k, nodeId |-> nodes[k].id]]
            /\ pc' = "started"
            /\ response' = 200
     ELSE /\ pc' = "error"
          /\ response' = 500
          /\ UNCHANGED <<runStatus, nodeExecutions, runExecs>>
  /\ UNCHANGED <<storeVars, restVars, queue, request, dbVars, route, nodes, edges, inputs, loopVars>>

\* -------------------------------------------------------------- save route
Remove(bag, k) == [x \in DOMAIN bag \ {k} |-> bag[x]]

StripLimit == 500000

StripIf(bag, k, cond) == IF cond THEN Remove(bag, k) ELSE bag

\* The copy of node.data that is stored as the node's config.
StripConfig(data) ==
  LET videoUrl == Get(data, "videoUrl")
      c1 == StripIf(data, "videoUrl",
                    Truthy(videoUrl) /\ IsStr(videoUrl) /\ StartsWith(videoUrl, <<"data:">>))
      c2 == StripIf(c1, "imageBase64", Truthy(Get(c1, "imageBase64")))
      frame == Get(c2, "extractedFrameUrl")
      c3 == StripIf(c2, "extractedFrameUrl",
                    Truthy(frame) /\ IsStr(frame) /\ StrLength(frame) > StripLimit)
      cropped == Get(c3, "croppedImageUrl")
  IN StripIf(c3, "croppedImageUrl",
             Truthy(cropped) /\ IsStr(cropped) /\ StrLength(cropped) > StripLimit)

NodeRows(definition) ==
  [k \in DOMAIN definition.nodes |->
     [id |-> definition.nodes[k].id, type |-> definition.nodes[k].type,
      config |-> StripConfig(definition.nodes[k].data)]]

\* Only edges whose source and target are nodes of the definition are stored.
\* Every edge of the definition written, with no check of its ends.
ValidEdgesAll(definition) == definition.edges

ValidEdges(definition) ==
  LET nodeIdSet == { definition.nodes[k].id : k \in DOMAIN definition.nodes }
  IN SelectSeq(definition.edges,
               LAMBDA edge : edge.source \in nodeIdSet /\ edge.target \in nodeIdSet)

EdgeRows(definition) ==
  LET valid == ValidEdges(definition)
  IN [k \in DOMAIN valid |->
        [sourceId |-> valid[k].source, targetId |-> valid[k].target,
         targetHandle |-> valid[k].targetHandle]]

CleanDefinition(definition) ==
  [nodes |-> [k \in DOMAIN definition.nodes |->
                [id |-> definition.nodes[k].id, type |-> definition.nodes[k].type,
                 data |-> StripConfig(definition.nodes[k].data)]],
   edges |-> definition.edges]

\* The save transaction of a request by userId for the workflow.
\* A save that does not look at the owner.
SaveByAnyone(userId, definition) ==
  /\ nodeExecutions' =
       { r \in nodeExecutions : r.nodeId \notin NodeIdsOf(dbNodes) }
  /\ dbNodes' = NodeRows(definition)
  /\ dbEdges' = EdgeRows(definition)
  /\ dbDefinition' = CleanDefinition(definition)

SaveBy(userId, definition) ==
  IF userId # Owner THEN UNCHANGED <<dbVars, nodeExecutions>>
  ELSE /\ nodeExecutions' =
            { r \in nodeExecutions : r.nodeId \notin NodeIdsOf(dbNodes) }
       /\ dbNodes' = NodeRows(definition)
       /\ dbEdges' = EdgeRows(definition)
       /\ dbDefinition' = CleanDefinition(definition)

\* ----------------------------------------------------------- runtime store
\* The zustand store of the editor: startRun, pollRun's interval callbacks,
\* fetchRuns and reset.  One call of pollRun is followed.
MaxTicks == 3

StartedRunId == Str(<<"r1">>)

StoreInit ==
  /\ runId = Null
  /\ isRunning = FALSE
  /\ nodeStatuses = EmptyBag
  /\ executionScope = EmptyBag
  /\ errors = <<>>
  /\ runs = <<>>
  /\ startPc = "idle"
  /\ timer = "none"
  /\ polls = <<>>
  /\ listFetches = 0

\* What GET /api/runs/:id answers: the run with its node executions.
RunStatuses == { "PENDING", "RUNNING", "COMPLETED", "FAILED", "CANCELLED" }

ExecutionLists ==
  { <<[nodeId |-> "n1", status |-> "PENDING"]>>,
    <<[nodeId |-> "n1", status |-> "COMPLETED"]>>,
    <<[nodeId |-> "n1", status |-> "RUNNING"], [nodeId |-> "n1", status |-> "FAILED"]>> }

RunRecordsOf(id) ==
  [id : {id}, status : RunStatuses, workflowId : {WorkflowId},
   nodeExecutions : ExecutionLists]

RunRecords == RunRecordsOf(StartedRunId)

\* What GET /api/workflows/:id/runs answers.
RunLists == { <<StartedRunId>> }

\* run.nodeExecutions.forEach((exec) => newNodeStatuses[exec.nodeId] = exec.status)
RECURSIVE NewNodeStatuses(_, _)
NewNodeStatuses(execs, acc) ==
  IF execs = <<>> THEN acc
  ELSE NewNodeStatuses(Tail(execs), Put(acc, Head(execs).nodeId, Head(execs).status))

\* Only COMPLETED and FAILED stop the interval.
StopStatusesNoCancelled == { "COMPLETED", "FAILED" }

StopStatuses == { "COMPLETED", "FAILED", "CANCELLED" }

StartRun ==
  /\ startPc = "idle"
  /\ runId' = Null
  /\ nodeStatuses' = EmptyBag
  /\ errors' = <<>>
  /\ isRunning' = TRUE
  /\ startPc' = "fetch"
  /\ UNCHANGED <<executionScope, runs, timer, polls, listFetches, engineVars, restVars>>

\* The start request answers with the run id and pollRun sets its interval.
StartRunOk ==
  /\ startPc = "fetch"
  /\ runId' = StartedRunId
  /\ timer' = "active"
  /\ startPc' = "polling"
  /\ UNCHANGED <<isRunning, nodeStatuses, executionScope, errors, runs, polls,
                 listFetches, engineVars, restVars>>

\* A catch block that records the message and leaves isRunning as it is.
StartRunFailStillRunning ==
  /\ startPc = "fetch"
  /\ \E message \in { "Failed to start run", "Failed to fetch" } :
       errors' = <<message>>
  /\ startPc' = "idle"
  /\ UNCHANGED <<runId, isRunning, nodeStatuses, executionScope, runs, timer, polls,
                 listFetches, engineVars, restVars>>

\* The start request throws or answers with a failure.
StartRunFail ==
  /\ startPc = "fetch"
  /\ \E message \in { "Failed to start run", "Failed to fetch" } :
       errors' = <<message>>
  /\ isRunning' = FALSE
  /\ startPc' = "idle"
  /\ UNCHANGED <<runId, nodeStatuses, executionScope, runs, timer, polls, listFetches,
                 engineVars, restVars>>

\* The interval fires: a callback starts and awaits its fetch.
Tick ==
  /\ timer = "active"
  /\ Len(polls) < MaxTicks
  /\ polls' = Append(polls, "fetch")
  /\ UNCHANGED <<runId, isRunning, nodeStatuses, executionScope, errors, runs, startPc,
                 timer, listFetches, engineVars, restVars>>

\* if (!response.ok) return;
PollNotOk ==
  /\ \E k \in DOMAIN polls :
       /\ polls[k] = "fetch"
       /\ polls' = [polls EXCEPT ![k] = "done"]
  /\ UNCHANGED <<runId, isRunning, nodeStatuses, executionScope, errors, runs, startPc,
                 timer, listFetches, engineVars, restVars>>

PollOk ==
  /\ \E k \in DOMAIN polls :
       /\ polls[k] = "fetch"
       /\ polls' = [polls EXCEPT ![k] = "json"]
  /\ UNCHANGED <<runId, isRunning, nodeStatuses, executionScope, errors, runs, startPc,
                 timer, listFetches, engineVars, restVars>>

\* The fetch or the reading of its body throws: the catch block.
PollThrow ==
  /\ \E k \in DOMAIN polls :
       /\ polls[k] \in { "fetch", "json" }
       /\ polls' = [polls EXCEPT ![k] = "done"]
  /\ timer' = "cleared"
  /\ isRunning' = FALSE
  /\ UNCHANGED <<runId, nodeStatuses, executionScope, errors, runs, startPc,
                 listFetches, engineVars, restVars>>

\* The body of the answer is read: the statuses are published and a terminal
\* run status stops the interval and starts fetchRuns.
PollRun ==
  /\ \E k \in DOMAIN polls :
       /\ polls[k] = "json"
       /\ polls' = [polls EXCEPT ![k] = "done"]
  /\ \E run \in RunRecords :
       /\ nodeStatuses' = NewNodeStatuses(run.nodeExecutions, EmptyBag)
       /\ executionScope' = run
       /\ IF run.status \in StopStatuses
            THEN /\ timer' = "cleared"
                 /\ isRunning' = FALSE
                 /\ listFetches' = listFetches + 1
          ELSE UNCHANGED <<timer, isRunning, listFetches>>
  /\ UNCHANGED <<runId, errors, runs, startPc, engineVars, restVars>>

FetchRunsOk ==
  /\ listFetches > 0
  /\ listFetches' = listFetches - 1
  /\ \E list \in RunLists : runs' = list
  /\ UNCHANGED <<runId, isRunning, nodeStatuses, executionScope, errors, startPc,
                 timer, polls, engineVars, restVars>>

\* The runs request throws or answers with a failure: runs is left as it is.
FetchRunsFail ==
  /\ listFetches > 0
  /\ listFetches' = listFetches - 1
  /\ UNCHANGED <<runId, isRunning, nodeStatuses, executionScope, errors, runs, startPc,
                 timer, polls, engineVars, restVars>>

\* reset: () => set({ nodeStatuses: {}, runId: null, isRunning: false, errors: [] })
Reset ==
  /\ nodeStatuses' = EmptyBag
  /\ runId' = Null
  /\ isRunning' = FALSE
  /\ errors' = <<>>
  /\ UNCHANGED <<executionScope, runs, startPc, timer, polls, listFetches, engineVars, restVars>>

\* ------------------------------------------------------ bounded input sets
SeqsUpTo(S, n) == UNION { [1..m -> S] : m \in 0..n }

Hi == Str(<<"Hi">>)
UrlA == Str(<<"https://", "a">>)

\* Node kinds with the data the editor gives them.
Variants ==
  { [type |-> "text", data |-> [content |-> Hi]],
    [type |-> "llm", data |-> EmptyBag],
    [type |-> "image", data |-> [imageUrl |-> UrlA]],
    [type |-> "crop", data |-> EmptyBag] }

Handles == { NoHandle, "images", "image", "image_url", "prompt" }

\* A definition of the given nodes (ids 1..n) and edges.
Definition(vs, es) ==
  [nodes |-> [k \in DOMAIN vs |-> [id |-> k, type |-> vs[k].type, data |-> vs[k].data]],
   edges |-> es]

EdgesUpTo(sources, targets, handles, maxEdges) ==
  SeqsUpTo([source : sources, target : targets, targetHandle : handles], maxEdges)

\* No second request is served; the editor store as it is created.
NoPeer == [pc |-> "idle"]
NoEditor == [nodes |-> <<>>, edges |-> <<>>, history |-> <<>>, historyIndex |-> -1]
NoSave == [userId |-> "", status |-> 0]

\* Everything but the editor after a save of the definition, with no run yet.
InitBeside(definition) ==
  /\ dbNodes = NodeRows(definition)
  /\ dbEdges = EdgeRows(definition)
  /\ dbDefinition = CleanDefinition(definition)
  /\ runStatus = "NONE"
  /\ nodeExecutions = {}
  /\ pc = "idle"
  /\ route = "none"
  /\ nodes = <<>>
  /\ edges = <<>>
  /\ inputs = EmptyBag
  /\ runExecs = <<>>
  /\ graph = NoGraph
  /\ executionOrder = <<>>
  /\ nodeOutputs = EmptyBag
  /\ i = 1
  /\ nodeInputs = EmptyBag
  /\ call = NoCall
  /\ response = 0
  /\ request = NoRequest
  /\ queue = <<>>
  /\ StoreInit
  /\ timer2 = "none"
  /\ polls2 = <<>>
  /\ peer = NoPeer
  /\ lastSave = NoSave

\* The state of the store after a save of the definition, with no run yet.
InitFrom(definition) == InitBeside(definition) /\ editor = NoEditor

\* ---------------------------------------------------------- specifications
\* One request served against a saved workflow of any kinds of nodes.
Init ==
  \E n \in 0..MaxRunNodes :
    \E vs \in [1..n -> Variants], es \in EdgesUpTo(1..n, 1..n, {NoHandle}, MaxRunEdges) :
      InitFrom(Definition(vs, es))

Next ==
  \/ ExecReject
  \/ ExecLoad
  \/ ExecCreateRun
  \/ ExecSchedule
  \/ MarkRunning
  \/ ExecuteLocal
  \/ ExecuteLlm
  \/ GenReturn
  \/ GenThrow
  \/ Finalize
  \/ StartReject
  \/ StartLoad
  \/ StartCreateRun

Spec == Init /\ [][Next]_vars

\* The scheduler on every graph of text nodes.
TextOnly == { v \in Variants : v.type = "text" }

InitSched ==
  \E n \in 0..MaxNodes :
    \E vs \in [1..n -> TextOnly], es \in EdgesUpTo(1..n, 1..n, {NoHandle}, MaxEdges) :
      InitFrom(Definition(vs, es))

NextSched ==
  \/ ExecLoad
  \/ ExecCreateRun
  \/ ExecSchedule

SpecSched == InitSched /\ [][NextSched]_vars

\* Input resolution where several producers feed one consumer: the last node
\* consumes, every edge leads from a producer to it, over any handle.
Producers == { v \in Variants : v.type \in {"llm", "image"} }
Consumers == { v \in Variants : v.type = "crop" }

InitResolve ==
  \E n \in 1..MaxProducers :
    \E vs \in { f \in [1..(n + 1) -> Variants] :
                   f[n + 1] \in Consumers /\ \A k \in 1..n : f[k] \in Producers },
       es \in EdgesUpTo(1..n, {n + 1}, Handles, MaxFanInEdges) :
      InitFrom(Definition(vs, es))

NextResolve ==
  \/ ExecLoad
  \/ ExecCreateRun
  \/ ExecSchedule
  \/ MarkRunning
  \/ ExecuteLocal
  \/ ExecuteLlm
  \/ GenReturn
  \/ GenThrow
  \/ Finalize

SpecResolve == InitResolve /\ [][NextResolve]_vars

\* Input resolution for an llm node fed by text, image and extract nodes
\* over the handles the editor's llm node offers.
UrlB == Str(<<"https://", "b">>)

LlmProducers ==
  { [type |-> "text", data |-> [content |-> Hi]],
    [type |-> "image", data |-> [imageUrl |-> UrlA]],
    [type |-> "image", data |-> [imageUrl |-> UrlB]],
    [type |-> "extract", data |-> EmptyBag] }

LlmConsumers == { v \in Variants : v.type = "llm" }

LlmHandles == { "images", "user_message" }

InitLlm ==
  \E n \in 1..MaxProducers :
    \E vs \in [1..n -> LlmProducers], c \in LlmConsumers,
       es \in EdgesUpTo(1..n, {n + 1}, LlmHandles, MaxFanInEdges) :
      InitFrom(Definition(Append(vs, c), es))

SpecLlm == InitLlm /\ [][NextResolve]_vars

\* Requests interleaved with save requests for the same workflow; a saved
\* definition may hold edges to ids that are no node of it.
SaveUsers == { "u1", "u2" }
SaveVariants == { v \in Variants : v.type \in {"text", "llm"} }

SaveDefinitions ==
  UNION { { Definition(vs, es) :
              vs \in [1..n -> SaveVariants],
              es \in EdgesUpTo(1..MaxSaveNodes, 1..MaxSaveNodes, {NoHandle}, 1) } :
          n \in 0..MaxSaveNodes }

\* The status a save request is answered with.
SaveStatus(userId) == IF userId # Owner THEN 403 ELSE 200

Save ==
  /\ \E userId \in SaveUsers, definition \in SaveDefinitions :
       /\ SaveBy(userId, definition)
       /\ lastSave' = [userId |-> userId, status |-> SaveStatus(userId)]
  /\ UNCHANGED <<storeVars, timer2, polls2, peer, editor, queue, request, runStatus, pc, route, nodes, edges, inputs,
                 runExecs, loopVars, response>>

InitSave == \E definition \in SaveDefinitions : InitFrom(definition)

NextSave == Next \/ Save

SpecSave == InitSave /\ [][NextSave]_vars

\* The runtime store with its poller; the routes are idle.
InitPoll == InitFrom(Definition(<<>>, <<>>))

NextPoll ==
  \/ StartRun
  \/ StartRunOk
  \/ StartRunFail
  \/ Tick
  \/ PollNotOk
  \/ PollOk
  \/ PollThrow
  \/ PollRun
  \/ FetchRunsOk
  \/ FetchRunsFail
  \/ Reset

SpecPoll == InitPoll /\ [][NextPoll]_vars

\* ================================================================== claims
\* Graph notions the claims are stated with.
EdgePairs(es) == { <<es[k].sourceId, es[k].targetId>> : k \in DOMAIN es }

\* The pairs joined by a path of at most n + 1 edges of R.
RECURSIVE Reach(_, _)
Reach(R, n) ==
  IF n = 0 THEN R
  ELSE LET T == Reach(R, n - 1)
       IN T \cup { <<pq[1][1], pq[2][2]>> : pq \in { x \in T \X R : x[1][2] = x[2][1] } }

PathPairs == Reach(EdgePairs(edges), Len(nodes))

Cyclic == \E v \in NodeIdsOf(nodes) : <<v, v>> \in PathPairs

Scheduled == pc = "loop" /\ i = 1 /\ nodeOutputs = EmptyBag

Positions(v) == { k \in DOMAIN executionOrder : executionOrder[k] = v }

\* C1: for an acyclic graph whose edges all reference existing nodes, the
\* execution order holds every node exactly once and, for every edge u -> v,
\* u comes before v.
C1_TopologicalOrder ==
  (Scheduled /\ ~Cyclic) =>
     /\ Len(executionOrder) = Len(nodes)
     /\ \A v \in NodeIdsOf(nodes) : Cardinality(Positions(v)) = 1
     /\ \A k \in DOMAIN edges :
          \A a \in Positions(edges[k].sourceId), b \in Positions(edges[k].targetId) :
             a < b

C1_Witness ==
  /\ Scheduled
  /\ ~Cyclic
  /\ Len(nodes) = 3
  /\ \E a, b \in DOMAIN edges :
       /\ edges[a].targetId = edges[b].targetId
       /\ edges[a].sourceId # edges[b].sourceId
  /\ Len(executionOrder) = 3

\* C2: for a graph with a directed cycle the execution order is strictly
\* shorter than the node count.
C2_CyclicOrderShorter ==
  (Scheduled /\ Cyclic) => Len(executionOrder) < Len(nodes)

C2_Witness ==
  /\ Scheduled
  /\ Cyclic
  /\ Len(executionOrder) = 1
  /\ Len(nodes) = 3

\* The node execution rows of a node, and their statuses.
RowsOf(nodeId) == { r \in nodeExecutions : r.nodeId = nodeId }
StatusesOf(nodeId) == { r.status : r \in RowsOf(nodeId) }
Terminal == { "COMPLETED", "FAILED" }
IsTerminal(nodeId) == StatusesOf(nodeId) # {} /\ StatusesOf(nodeId) \subseteq Terminal
HasFailedOutput(nodeId) ==
  nodeId \in DOMAIN nodeOutputs /\ "error" \in DOMAIN nodeOutputs[nodeId]

\* C3: when a node's execution is set to RUNNING, the source of each of its
\* incoming edges already has a terminal node status and an entry in the
\* output map.
C3_ProducersTerminal ==
  pc = "running" =>
    \A k \in DOMAIN edges :
      edges[k].targetId = CurrentId =>
        /\ IsTerminal(edges[k].sourceId)
        /\ edges[k].sourceId \in DOMAIN nodeOutputs

C3_Witness ==
  /\ pc = "running"
  /\ StatusesOf(CurrentId) = {"RUNNING"}
  /\ \E a \in DOMAIN edges :
       /\ edges[a].targetId = CurrentId
       /\ StatusesOf(edges[a].sourceId) = {"FAILED"}
       /\ HasFailedOutput(edges[a].sourceId)

\* C4: a node execution only moves PENDING -> RUNNING -> COMPLETED or
\* PENDING -> RUNNING -> FAILED; a COMPLETED or FAILED one never changes.
C4_NodeLifecycle ==
  [][\A r \in nodeExecutions : \A q \in nodeExecutions' :
       (r.id = q.id /\ r.status # q.status) =>
          <<r.status, q.status>> \in
             { <<"PENDING", "RUNNING">>, <<"RUNNING", "COMPLETED">>,
               <<"RUNNING", "FAILED">> }]_vars

C4_Witness ==
  /\ pc = "done"
  /\ \E r \in nodeExecutions : r.status = "FAILED"
  /\ \E r \in nodeExecutions : r.status = "COMPLETED"

\* C5: from run creation onward there is exactly one node execution for each
\* node of the run's workflow, also when workflow saves interleave with the
\* run.
C5_OneExecutionPerNode ==
  runStatus # "NONE" =>
    \A k \in DOMAIN nodes : Cardinality(RowsOf(nodes[k].id)) = 1

\* C6 as stated: a run starts PENDING, becomes RUNNING when execution starts,
\* ends COMPLETED or FAILED only after the whole order is processed, and is
\* never set CANCELLED.
OrderProcessed ==
  \A k \in DOMAIN executionOrder :
     /\ executionOrder[k] \in DOMAIN nodeOutputs
     /\ IsTerminal(executionOrder[k])

C6_RunStartsPending ==
  [][runStatus # runStatus' =>
       \/ runStatus = "NONE" /\ runStatus' = "PENDING"
       \/ runStatus = "PENDING" /\ runStatus' = "RUNNING"
       \/ runStatus = "RUNNING" /\ runStatus' \in Terminal /\ OrderProcessed]_vars

\* C6 amended: a run the start route creates starts PENDING; a run the
\* execute route creates starts RUNNING and is never PENDING; it ends
\* COMPLETED or FAILED only after the whole order is processed; no run is
\* set CANCELLED.
C6_RunLifecycle ==
  [][runStatus # runStatus' =>
       \/ runStatus = "NONE" /\ runStatus' = "PENDING" /\ route = "start"
       \/ runStatus = "NONE" /\ runStatus' = "RUNNING" /\ route = "execute"
       \/ /\ runStatus = "RUNNING"
          /\ runStatus' \in Terminal
          /\ route = "execute"
          /\ pc = "loop"
          /\ OrderProcessed]_vars

C6_Witness ==
  /\ route = "execute"
  /\ pc = "done"
  /\ runStatus = "COMPLETED"
  /\ Len(executionOrder) = 2

\* C7: at finalization the run is COMPLETED exactly when every node
\* execution created for the run has its node id in the output map, and
\* FAILED otherwise.
C7_AttemptedMeansCompleted ==
  pc = "done" =>
    /\ runStatus \in Terminal
    /\ runStatus = "COMPLETED" <=>
         \A r \in nodeExecutions : r.nodeId \in DOMAIN nodeOutputs

C7_Witness ==
  /\ pc = "done"
  /\ runStatus = "FAILED"
  /\ \E r \in nodeExecutions : r.status = "FAILED"
  /\ \E r \in nodeExecutions : r.status = "PENDING"

\* C8: a node whose generation call threw ends FAILED with a non-empty error
\* string, and the run still ends COMPLETED when every node was attempted.
C8_ThrowFailsNodeOnly ==
  /\ \A r \in nodeExecutions :
       HasFailedOutput(r.nodeId) =>
          /\ r.status = "FAILED"
          /\ IsStr(r.error)
          /\ r.error.s # <<>>
          /\ r.error = nodeOutputs[r.nodeId]["error"]
  /\ (pc = "done" /\ \A r \in nodeExecutions : r.nodeId \in DOMAIN nodeOutputs)
        => runStatus = "COMPLETED"

C8_Witness ==
  /\ pc = "done"
  /\ runStatus = "COMPLETED"
  /\ \E r \in nodeExecutions : r.status = "FAILED" /\ HasFailedOutput(r.nodeId)

\* C9: after a node fails the engine goes on: every node of the order is
\* set RUNNING and ends COMPLETED or FAILED, and no node execution is
\* marked SKIPPED.
C9_ContinuesAfterFailure ==
  /\ pc # "error"
  /\ \A r \in nodeExecutions : r.status # "SKIPPED"
  /\ (pc = "loop" /\ i <= Len(executionOrder)) => ENABLED MarkRunning
  /\ pc = "done" => \A k \in DOMAIN executionOrder : IsTerminal(executionOrder[k])

C9_Witness ==
  /\ pc = "done"
  /\ \E k \in DOMAIN edges :
       /\ StatusesOf(edges[k].sourceId) = {"FAILED"}
       /\ edges[k].targetId # edges[k].sourceId
       /\ IsTerminal(edges[k].targetId)

\* C10: an edge whose producer failed leaves the consumer's input bag as it
\* is without that edge, whatever its target handle.
FromFailed(edge) == HasFailedOutput(edge.sourceId)

C10_FailedProducerNoData ==
  pc = "running" =>
    LET config == FindNode(CurrentId).config IN
      ResolveInputs(inputs, config, edges, CurrentId, nodeOutputs)
        = ResolveInputs(inputs, config,
                        SelectSeq(edges, LAMBDA e : ~FromFailed(e)),
                        CurrentId, nodeOutputs)

C10_Witness ==
  /\ pc = "running"
  /\ \E a, b \in DOMAIN edges :
       /\ a < b
       /\ edges[a].targetId = CurrentId
       /\ edges[b].targetId = CurrentId
       /\ ~FromFailed(edges[a])
       /\ FromFailed(edges[b])
       /\ edges[a].targetHandle = edges[b].targetHandle
       /\ edges[a].targetHandle \in
            DOMAIN ResolveInputs(inputs, FindNode(CurrentId).config, edges,
                                 CurrentId, nodeOutputs)

\* What an edge carries, and the images of an input bag.
Carried(edge) == Candidate(nodeOutputs[edge.sourceId])
CarriesImage(edge) ==
  /\ edge.sourceId \in DOMAIN nodeOutputs
  /\ isValidImage(Carried(edge))
ImagesOf(bag) == IF IsArray(Get(bag, "images")) THEN Get(bag, "images").a ELSE <<>>
Incoming == IncomingEdges(edges, CurrentId)

\* C11: two incoming edges to handle images that carry distinct valid image
\* URLs put both URLs on the images list, in the order of the edge array; a
\* node with just these two edges resolves exactly that list.
C11_ImagesInEdgeOrder ==
  pc = "gen" =>
    \A a, b \in DOMAIN Incoming :
      (/\ a < b
       /\ Incoming[a].targetHandle = "images"
       /\ Incoming[b].targetHandle = "images"
       /\ CarriesImage(Incoming[a])
       /\ CarriesImage(Incoming[b])
       /\ Carried(Incoming[a]) # Carried(Incoming[b]))
      => /\ \E p, q \in DOMAIN ImagesOf(nodeInputs) :
              /\ p < q
              /\ ImagesOf(nodeInputs)[p] = Carried(Incoming[a])
              /\ ImagesOf(nodeInputs)[q] = Carried(Incoming[b])
         /\ Len(Incoming) = 2 =>
              ImagesOf(nodeInputs) = <<Carried(Incoming[a]), Carried(Incoming[b])>>

C11_Witness ==
  /\ pc = "gen"
  /\ Len(Incoming) = 2
  /\ Incoming[1].targetHandle = "images"
  /\ Incoming[2].targetHandle = "images"
  /\ Incoming[1].sourceId > Incoming[2].sourceId
  /\ ImagesOf(nodeInputs) = <<UrlB, UrlA>>

\* C12: an edge to handle image_url that carries a valid image sets both
\* image and image_url of the consumer's inputs to it and appends it to
\* images.
C12_ImageUrlSetsBoth ==
  pc = "running" =>
    LET base == Assign(inputs, FindNode(CurrentId).config) IN
      \A k \in DOMAIN Incoming :
        LET before == FoldEdges(base, SubSeq(Incoming, 1, k - 1), nodeOutputs)
            after == FoldEdges(base, SubSeq(Incoming, 1, k), nodeOutputs)
        IN (Incoming[k].targetHandle = "image_url" /\ CarriesImage(Incoming[k])) =>
             /\ Get(after, "image") = Carried(Incoming[k])
             /\ Get(after, "image_url") = Carried(Incoming[k])
             /\ ImagesOf(after) = ImagesOf(before) \o <<Carried(Incoming[k])>>

C12_Witness ==
  \E r \in nodeExecutions :
    /\ r.status = "COMPLETED"
    /\ \E k \in DOMAIN edges :
         edges[k].targetId = r.nodeId /\ edges[k].targetHandle = "image_url"
    /\ Get(r.inputs, "image") = UrlA
    /\ Get(r.inputs, "image_url") = UrlA
    /\ ImagesOf(r.inputs) = <<UrlA>>

\* C13: a crop node with no croppedImageUrl and no valid image from upstream
\* produces {output: null, status: "no_input"} and its node execution ends
\* COMPLETED, not FAILED.
NodeOf(nodeId) == FindNode(nodeId)
NoUpstreamImage(nodeId) ==
  \A k \in DOMAIN edges :
    (edges[k].targetId = nodeId /\ edges[k].sourceId \in DOMAIN nodeOutputs) =>
       \A f \in DOMAIN nodeOutputs[edges[k].sourceId] :
          ~isValidImage(nodeOutputs[edges[k].sourceId][f])

C13_CropNoInputCompletes ==
  \A r \in nodeExecutions :
    (/\ r.nodeId \in NodeIdsOf(nodes)
     /\ NodeOf(r.nodeId).type = "crop"
     /\ r.status \notin { "PENDING", "RUNNING" }
     /\ ~Truthy(Get(NodeOf(r.nodeId).config, "croppedImageUrl"))
     /\ NoUpstreamImage(r.nodeId))
    => /\ r.status = "COMPLETED"
       /\ r.outputs = [output |-> Null, status |-> Status("no_input")]
       /\ nodeOutputs[r.nodeId] = r.outputs

C13_Witness ==
  \E r \in nodeExecutions :
    /\ NodeOf(r.nodeId).type = "crop"
    /\ r.status = "COMPLETED"
    /\ NoUpstreamImage(r.nodeId)
    /\ \E k \in DOMAIN edges :
         /\ edges[k].targetId = r.nodeId
         /\ edges[k].targetHandle = "image"
         /\ edges[k].sourceId \in DOMAIN nodeOutputs
    /\ r.outputs = [output |-> Null, status |-> Status("no_input")]

\* C14: an llm node whose inputs hold no valid image calls text generation;
\* with one or more valid images it calls vision generation with exactly the
\* valid images of inputs.images, in their order.
C14_TextOrVision ==
  pc = "gen" =>
    LET valid == SelectSeq(ImagesOf(nodeInputs), isValidImage) IN
      /\ valid = <<>> => (call.fn = "generateText" /\ call.images = <<>>)
      /\ valid # <<>> => (call.fn = "generateVision" /\ call.images = valid)

C14_Witness ==
  /\ pc = "gen"
  /\ call.fn = "generateVision"
  /\ call.images = <<UrlA>>
  /\ \E k \in DOMAIN Incoming :
       Incoming[k].targetHandle = "images" /\ ~CarriesImage(Incoming[k])

\* C15: text node T (content "Hi") feeds llm node L (empty system prompt)
\* over handle user_message: L's prompt is "User: Hi", L's output is what
\* text generation returns, both node executions and the run end COMPLETED.
C15_UserMessagePrompt ==
  (/\ Len(nodes) = 2
   /\ nodes[1].type = "text"
   /\ Get(nodes[1].config, "content") = Hi
   /\ nodes[2].type = "llm"
   /\ edges = <<[sourceId |-> 1, targetId |-> 2, targetHandle |-> "user_message"]>>)
  => /\ pc = "gen" =>
          /\ call.fn = "generateText"
          /\ call.prompt = Str(<<"User: ", "Hi">>)
     /\ (pc = "done" /\ ~HasFailedOutput(2)) =>
          /\ runStatus = "COMPLETED"
          /\ StatusesOf(1) = {"COMPLETED"}
          /\ StatusesOf(2) = {"COMPLETED"}
          /\ nodeOutputs[2]["output"] \in GenResults

\* C16: an extract node with no extractedFrameUrl produces output null with
\* status "not_extracted", and an edge from it to handle images adds nothing
\* to the consumer's images list.
NotExtracted(nodeId) ==
  /\ nodeId \in NodeIdsOf(nodes)
  /\ NodeOf(nodeId).type = "extract"
  /\ ~Truthy(Get(NodeOf(nodeId).config, "extractedFrameUrl"))

FromNotExtracted(edge) == edge.targetHandle = "images" /\ NotExtracted(edge.sourceId)

C16_NotExtractedAddsNothing ==
  /\ \A nodeId \in DOMAIN nodeOutputs :
       NotExtracted(nodeId) =>
          /\ Get(nodeOutputs[nodeId], "output") = Null
          /\ Get(nodeOutputs[nodeId], "status") = Status("not_extracted")
  /\ pc = "gen" =>
       ImagesOf(nodeInputs) =
         ImagesOf(ResolveInputs(inputs, NodeOf(CurrentId).config,
                                SelectSeq(edges, LAMBDA e : ~FromNotExtracted(e)),
                                CurrentId, nodeOutputs))

C16_Witness ==
  /\ pc = "gen"
  /\ \E a, b \in DOMAIN Incoming :
       /\ a < b
       /\ FromNotExtracted(Incoming[a])
       /\ Incoming[b].targetHandle = "images"
       /\ CarriesImage(Incoming[b])
  /\ ImagesOf(nodeInputs) = <<UrlB>>

\* C17: once a poll answer reports the run COMPLETED, FAILED or CANCELLED the
\* poller clears its timer and sets isRunning to false, and a cleared timer
\* stays cleared and starts no further callback.
RunTerminal == { "COMPLETED", "FAILED", "CANCELLED" }

C17_TerminalStopsPolling ==
  [][/\ (PollRun /\ executionScope'.status \in RunTerminal) =>
          (timer' = "cleared" /\ isRunning' = FALSE)
     /\ timer = "cleared" => (timer' = "cleared" /\ Len(polls') = Len(polls))]_vars

C17_Witness ==
  /\ timer = "cleared"
  /\ isRunning = FALSE
  /\ polls = <<"done">>
  /\ executionScope # EmptyBag
  /\ executionScope.status = "CANCELLED"

\* The store's reset was called while a poller exists.
Cancelled == timer # "none" /\ runId = Null

\* C18: whenever a status fetch fails (it throws, or the endpoint answers
\* with a failure) the poll loop ends: the timer is cleared and isRunning is
\* false.  Stated for a poller that was not reset.
C18_FailedFetchStopsPolling ==
  [][(~Cancelled /\ (PollNotOk \/ PollThrow)) =>
        (timer' = "cleared" /\ isRunning' = FALSE)]_vars

\* C19: after the store's reset cancels the poller no callback starts and no
\* callback changes nodeStatuses, executionScope, isRunning or runs.

C19_ResetStopsTimer ==
  [][Cancelled =>
       /\ Len(polls') = Len(polls)
       /\ (PollOk \/ PollNotOk \/ PollThrow \/ PollRun \/ FetchRunsOk \/ FetchRunsFail)
            => UNCHANGED <<nodeStatuses, executionScope, isRunning, runs>>]_vars

\* C20: a start or execute request with no workflow id, for a workflow that
\* does not exist or for a workflow of another user is rejected and writes no
\* run and no node execution.
InvalidRequest(req) ==
  \/ req.workflowId = ""
  \/ req.workflowId # WorkflowId
  \/ req.userId # Owner

C20_RejectedWritesNothing ==
  (route # "none" /\ InvalidRequest(request)) =>
     /\ pc = "rejected"
     /\ response \in { 400, 401, 403, 404 }
     /\ runStatus = "NONE"
     /\ nodeExecutions = {}

C20_Witness ==
  /\ route = "start"
  /\ pc = "rejected"
  /\ request.userId = "u2"
  /\ request.workflowId = WorkflowId
  /\ response = 403
  /\ Len(dbNodes) > 0
  /\ nodeExecutions = {}

\* ------------------------------------------------- dangling edges at a save
\* A saved definition whose edges may name a node id the definition lacks.
InitDangling ==
  \E n \in 0..MaxRunNodes :
    \E vs \in [1..n -> TextOnly],
       es \in EdgesUpTo(1..(n + 1), 1..(n + 1), {NoHandle}, MaxRunEdges) :
      InitFrom(Definition(vs, es))

SpecDangling == InitDangling /\ [][NextSched]_vars

Dangling(edge) ==
  edge.source \notin NodeIdsOf(nodes) \/ edge.target \notin NodeIdsOf(nodes)

\* The definition's edges into v whose two ends both exist.
SoundEdgesInto(v) ==
  { k \in DOMAIN dbDefinition.edges :
      /\ dbDefinition.edges[k].target = v
      /\ ~Dangling(dbDefinition.edges[k]) }

\* C21: every edge the engine loads has its source and its target among the
\* workflow's nodes, so an edge of the definition with a missing end changes
\* no node's in-degree and adds no id to the graph or to the order.
C21_EdgesReferenceNodes ==
  (route = "execute" /\ pc # "idle") =>
    /\ \A k \in DOMAIN edges :
         /\ edges[k].sourceId \in NodeIdsOf(nodes)
         /\ edges[k].targetId \in NodeIdsOf(nodes)
    /\ \A v \in NodeIdsOf(nodes) :
         MapGet(BuildGraph(nodes, edges).inDegree, v, 0) = Cardinality(SoundEdgesInto(v))
    /\ Scheduled =>
         /\ Range(graph.inDegree.keys) \subseteq NodeIdsOf(nodes)
         /\ Range(graph.adjList.keys) \subseteq NodeIdsOf(nodes)
         /\ Range(executionOrder) \subseteq NodeIdsOf(nodes)

C21_Witness ==
  /\ Scheduled
  /\ Len(nodes) = 2
  /\ \E k \in DOMAIN dbDefinition.edges :
       /\ dbDefinition.edges[k].source = 1
       /\ dbDefinition.edges[k].target = 3
  /\ \E k \in DOMAIN dbDefinition.edges :
       /\ dbDefinition.edges[k].source = 3
       /\ dbDefinition.edges[k].target = 2
  /\ executionOrder = <<1, 2>>

\* ------------------------------------------- Kahn's loop, one pass per step
\* The graph built and the queue seeded (route.ts:61-81).
KahnStart ==
  /\ pc = "created"
  /\ route = "execute"
  /\ graph' = BuildGraph(nodes, edges)
  /\ queue' = SeedQueue(graph'.inDegree)
  /\ executionOrder' = <<>>
  /\ pc' = "kahn"
  /\ UNCHANGED <<storeVars, restVars, request, dbVars, runStatus, nodeExecutions, route, nodes, edges,
                 inputs, runExecs, nodeOutputs, i, nodeInputs, call, response>>

\* One pass of while (queue.length > 0): shift, push, relax the neighbors.
KahnStep ==
  /\ pc = "kahn"
  /\ queue # <<>>
  /\ LET nodeId == Head(queue)
         st == Relax(MapGet(graph.adjList, nodeId, <<>>),
                     [inDegree |-> graph.inDegree, queue |-> Tail(queue)])
     IN /\ executionOrder' = Append(executionOrder, nodeId)
        /\ graph' = [adjList |-> graph.adjList, inDegree |-> st.inDegree]
        /\ queue' = st.queue
  /\ UNCHANGED <<storeVars, restVars, request, dbVars, runStatus, nodeExecutions, pc, route, nodes, edges,
                 inputs, runExecs, nodeOutputs, i, nodeInputs, call, response>>

\* The queue is empty: the loop is left and the execution loop begins.
KahnDone ==
  /\ pc = "kahn"
  /\ queue = <<>>
  /\ nodeOutputs' = EmptyBag
  /\ i' = 1
  /\ pc' = "loop"
  /\ UNCHANGED <<storeVars, restVars, request, queue, dbVars, runStatus, nodeExecutions, route, nodes,
                 edges, inputs, runExecs, graph, executionOrder, nodeInputs, call, response>>

NextKahn ==
  \/ ExecLoad
  \/ ExecCreateRun
  \/ KahnStart
  \/ KahnStep
  \/ KahnDone

InitKahn ==
  \E n \in 0..MaxRunNodes :
    \E vs \in [1..n -> TextOnly], es \in EdgesUpTo(1..n, 1..n, {NoHandle}, MaxRunEdges) :
      InitFrom(Definition(vs, es))

\* The loop is synchronous code: once entered it takes its next pass.
SpecKahn == InitKahn /\ [][NextKahn]_vars /\ WF_vars(KahnStep) /\ WF_vars(KahnDone)

\* How often id v has been enqueued: an id shifted off the queue is in the order.
Enqueued(v) ==
  Cardinality({ k \in DOMAIN executionOrder : executionOrder[k] = v })
    + Cardinality({ k \in DOMAIN queue : queue[k] = v })

\* C26: the scheduler terminates on every graph, cyclic ones and ones with
\* parallel edges included: no id is enqueued twice, and the loop, once
\* entered, is left with the queue empty.
C26_SchedulerTerminates ==
  /\ [](pc = "kahn" => \A v \in NodeIdsOf(nodes) \cup Range(queue) : Enqueued(v) <= 1)
  /\ (pc = "kahn") ~> (pc = "loop" /\ queue = <<>>)

C26_Witness ==
  /\ pc = "loop"
  /\ queue = <<>>
  /\ Len(nodes) = 2
  /\ executionOrder = <<1, 2>>
  /\ Len(edges) = 2
  /\ edges[1] = edges[2]
  /\ edges[1].sourceId = 1
  /\ edges[1].targetId = 2

\* C22: in a cyclic workflow the nodes on a cycle or behind one are exactly
\* the nodes the order leaves out, and their node executions are PENDING in
\* every state of the run, also after it is finalized.
OnOrBehindCycle(v) ==
  \E u \in NodeIdsOf(nodes) :
    /\ <<u, u>> \in PathPairs
    /\ (u = v \/ <<u, v>> \in PathPairs)

RunScheduled == route = "execute" /\ pc \in { "loop", "running", "gen", "done" }

C22_UnreachableStayPending ==
  RunScheduled =>
    \A v \in NodeIdsOf(nodes) :
      /\ OnOrBehindCycle(v) <=> v \notin Range(executionOrder)
      /\ OnOrBehindCycle(v) =>
           (StatusesOf(v) = {"PENDING"} /\ v \notin DOMAIN nodeOutputs)

C22_Witness ==
  /\ pc = "done"
  /\ Len(nodes) = 2
  /\ Len(executionOrder) = 1
  /\ OnOrBehindCycle(2)
  /\ ~OnOrBehindCycle(1)
  /\ StatusesOf(1) = {"COMPLETED"}
  /\ StatusesOf(2) = {"PENDING"}

\* C23: when the order is shorter than the node count the engine treats the
\* graph as an error and executes no node of it.
C23_ShortOrderIsGraphError ==
  (RunScheduled /\ Len(executionOrder) < Len(nodes)) =>
     /\ \A r \in nodeExecutions : r.status = "PENDING"
     /\ nodeOutputs = EmptyBag
     /\ runStatus # "COMPLETED"

\* C24: no node execution ever has status SKIPPED: every status written is
\* PENDING, RUNNING, COMPLETED or FAILED.
C24_NeverSkipped ==
  \A r \in nodeExecutions :
    r.status \in { "PENDING", "RUNNING", "COMPLETED", "FAILED" }

C24_Witness ==
  /\ pc = "done"
  /\ \E r \in nodeExecutions : r.status = "FAILED"
  /\ \E k \in DOMAIN edges :
       /\ StatusesOf(edges[k].sourceId) = {"FAILED"}
       /\ edges[k].targetId # edges[k].sourceId
       /\ StatusesOf(edges[k].targetId) = {"COMPLETED"}

\* C25: the order is first-in first-out: the nodes with no incoming edge come
\* first, in node list order, and a node released later stands behind every
\* node that was released before it.
Preds(v) == { edges[k].sourceId : k \in { j \in DOMAIN edges : edges[j].targetId = v } }
PosOf(v) == CHOOSE k \in DOMAIN executionOrder : executionOrder[k] = v
Highest(S) == CHOOSE x \in S : \A y \in S : y <= x
\* The position whose processing released v; 0 for a node with no incoming edge.
Release(v) == IF Preds(v) = {} THEN 0 ELSE Highest({ PosOf(u) : u \in Preds(v) })
Seeds == SelectSeq([k \in DOMAIN nodes |-> nodes[k].id], LAMBDA v : Preds(v) = {})

C25_FifoOrder ==
  Scheduled =>
    /\ Len(executionOrder) >= Len(Seeds)
    /\ SubSeq(executionOrder, 1, Len(Seeds)) = Seeds
    /\ \A p, q \in DOMAIN executionOrder :
         p < q => Release(executionOrder[p]) <= Release(executionOrder[q])

C25_Witness ==
  /\ Scheduled
  /\ Len(nodes) = 3
  /\ Seeds = <<1, 3>>
  /\ executionOrder = <<1, 3, 2>>
  /\ Preds(2) = {1}

\* --------------------------------------------- producers with nothing to give
\* An image node without a URL yields the empty string, a crop node without
\* input the status no_input, an extract node without a frame not_extracted,
\* an llm node whose call failed a bag with none of the four fields.
QuietProducers ==
  { [type |-> "llm", data |-> EmptyBag],
    [type |-> "image", data |-> [imageUrl |-> UrlA]],
    [type |-> "image", data |-> EmptyBag],
    [type |-> "crop", data |-> EmptyBag],
    [type |-> "extract", data |-> EmptyBag] }

QuietHandles == { NoHandle, "prompt" }

InitCandidate ==
  \E n \in 1..MaxProducers :
    \E vs \in [1..n -> QuietProducers], c \in Consumers,
       es \in EdgesUpTo(1..n, {n + 1}, QuietHandles, MaxFanInEdges) :
      InitFrom(Definition(Append(vs, c), es))

SpecCandidate == InitCandidate /\ [][NextResolve]_vars

\* The first non-empty of image, output, text; url when all three are empty.
ByPriority(bag) ==
  IF Truthy(Get(bag, "image")) THEN Get(bag, "image")
  ELSE IF Truthy(Get(bag, "output")) THEN Get(bag, "output")
  ELSE IF Truthy(Get(bag, "text")) THEN Get(bag, "text")
  ELSE Get(bag, "url")

NoData(bag) ==
  Get(bag, "status") \in { Status("no_input"), Status("not_extracted") }

NullOrEmpty(v) == v \in { Null, Undef, Str(<<>>) }

\* C27: the candidate of an incoming edge is the producer bag's image, else
\* output, else text, else url; when it is null or empty, or the bag's status
\* is no_input or not_extracted, the edge leaves the input bag as it was, and
\* otherwise an edge to a named handle delivers that candidate.
C27_CandidateAndSkip ==
  pc = "running" =>
    LET base == Assign(inputs, FindNode(CurrentId).config) IN
      \A k \in DOMAIN Incoming :
        Incoming[k].sourceId \in DOMAIN nodeOutputs =>
          LET bag == nodeOutputs[Incoming[k].sourceId]
              before == FoldEdges(base, SubSeq(Incoming, 1, k - 1), nodeOutputs)
              after == FoldEdges(base, SubSeq(Incoming, 1, k), nodeOutputs)
          IN /\ Carried(Incoming[k]) = ByPriority(bag)
             /\ (NullOrEmpty(ByPriority(bag)) \/ NoData(bag)) => after = before
             /\ (~NullOrEmpty(ByPriority(bag)) /\ ~NoData(bag)
                   /\ Incoming[k].targetHandle = "prompt") =>
                  Get(after, "prompt") = ByPriority(bag)

C27_Witness ==
  /\ pc = "done"
  /\ Len(nodes) = 3
  /\ Truthy(Get(nodeOutputs[1], "text"))
  /\ "image" \notin DOMAIN nodeOutputs[1]
  /\ Get(nodeOutputs[2], "status") = Status("no_input")
  /\ edges = << [sourceId |-> 1, targetId |-> 3, targetHandle |-> "prompt"],
                [sourceId |-> 2, targetId |-> 3, targetHandle |-> "prompt"] >>
  /\ \E r \in nodeExecutions :
       /\ r.nodeId = 3
       /\ r.status = "COMPLETED"
       /\ Get(r.inputs, "prompt") = Get(nodeOutputs[1], "text")

\* ------------------------------------------------ edges to named handles
\* An embedded image and a URL of a thousand characters and more.
DataUri == Str(<<"data:", "image/", "x">>)
LongUrl == Str(<<"https://", "BIG">>)

NamedProducers ==
  { [type |-> "text", data |-> [content |-> Hi]],
    [type |-> "image", data |-> [imageUrl |-> UrlA]],
    [type |-> "image", data |-> [imageUrl |-> DataUri]],
    [type |-> "image", data |-> [imageUrl |-> LongUrl]] }

\* The llm node's images handle, a handle that only begins with images, and
\* a handle of another name.
NamedHandles == { "images", "images-1", "prompt" }

InitNamed ==
  \E n \in 1..MaxProducers :
    \E vs \in [1..n -> NamedProducers], c \in LlmConsumers,
       es \in EdgesUpTo(1..n, {n + 1}, NamedHandles, MaxFanInEdges) :
      InitFrom(Definition(Append(vs, c), es))

SpecNamed == InitNamed /\ [][NextResolve]_vars

BeginsWithImages(handle) == handle \in { "images", "images-1" }

\* The edge delivers a candidate: its producer has an output that is not skipped.
Delivers(edge) ==
  /\ edge.sourceId \in DOMAIN nodeOutputs
  /\ ~NullOrEmpty(ByPriority(nodeOutputs[edge.sourceId]))
  /\ ~NoData(nodeOutputs[edge.sourceId])

\* The input bag up to and without, and up to and with, incoming edge k.
BagBefore(k) ==
  FoldEdges(Assign(inputs, FindNode(CurrentId).config), SubSeq(Incoming, 1, k - 1),
            nodeOutputs)
BagAfter(k) ==
  FoldEdges(Assign(inputs, FindNode(CurrentId).config), SubSeq(Incoming, 1, k),
            nodeOutputs)

\* Edge k adds its candidate to images only when it is a valid image and
\* touches no other field.
OnlyImagesTouched(k) ==
  LET val == Carried(Incoming[k]) IN
    /\ ImagesOf(BagAfter(k))
         = ImagesOf(BagBefore(k)) \o (IF isValidImage(val) THEN <<val>> ELSE <<>>)
    /\ DOMAIN BagAfter(k) \ {"images"} = DOMAIN BagBefore(k) \ {"images"}
    /\ \A f \in DOMAIN BagBefore(k) \ {"images"} : BagAfter(k)[f] = BagBefore(k)[f]

\* C28 as stated: an edge whose target handle begins with images adds its
\* candidate to images only if it is a valid image and sets no other field.
C28_ImagesPrefixHandle ==
  pc = "running" =>
    \A k \in DOMAIN Incoming :
      (BeginsWithImages(Incoming[k].targetHandle) /\ Delivers(Incoming[k])) =>
        OnlyImagesTouched(k)

\* C28 amended: only the handle named exactly images is handled so; under a
\* handle that merely begins with images a candidate that is no valid image
\* is assigned to the field of that name.
C28_ImagesExactHandle ==
  pc = "running" =>
    \A k \in DOMAIN Incoming :
      Delivers(Incoming[k]) =>
        /\ Incoming[k].targetHandle = "images" => OnlyImagesTouched(k)
        /\ (Incoming[k].targetHandle = "images-1"
              /\ ~isValidImage(Carried(Incoming[k]))) =>
             Get(BagAfter(k), "images-1") = Carried(Incoming[k])

C28_Witness ==
  /\ pc = "done"
  /\ Len(nodes) = 3
  /\ Get(nodeOutputs[1], "image") = UrlA
  /\ Get(nodeOutputs[2], "text") = Hi
  /\ edges = << [sourceId |-> 1, targetId |-> 3, targetHandle |-> "images"],
                [sourceId |-> 2, targetId |-> 3, targetHandle |-> "images"] >>
  /\ \E r \in nodeExecutions :
       /\ r.nodeId = 3
       /\ r.status = "COMPLETED"
       /\ ImagesOf(r.inputs) = <<UrlA>>
       /\ DOMAIN r.inputs = {"images"}

\* C29: an edge to a named handle other than images, image and image_url
\* always appends a valid image to images and assigns it under the handle
\* only if it has no data: prefix and fewer than 1000 characters; a candidate
\* that is no valid image is assigned under the handle and not appended.
OtherNamed(handle) == handle \notin { NoHandle, "images", "image", "image_url" }

C29_NamedHandleRouting ==
  pc = "running" =>
    \A k \in DOMAIN Incoming :
      (OtherNamed(Incoming[k].targetHandle) /\ Delivers(Incoming[k])) =>
        LET val == Carried(Incoming[k])
            handle == Incoming[k].targetHandle
            small == ~StartsWith(val, <<"data:">>) /\ StrLength(val) < 1000
        IN IF isValidImage(val)
             THEN /\ ImagesOf(BagAfter(k)) = ImagesOf(BagBefore(k)) \o <<val>>
                  /\ Get(BagAfter(k), handle)
                       = (IF small THEN val ELSE Get(BagBefore(k), handle))
           ELSE /\ Get(BagAfter(k), handle) = val
                /\ ImagesOf(BagAfter(k)) = ImagesOf(BagBefore(k))

C29_Witness ==
  /\ pc = "done"
  /\ Len(nodes) = 3
  /\ Get(nodeOutputs[1], "image") = LongUrl
  /\ Get(nodeOutputs[2], "image") = DataUri
  /\ edges = << [sourceId |-> 1, targetId |-> 3, targetHandle |-> "prompt"],
                [sourceId |-> 2, targetId |-> 3, targetHandle |-> "prompt"] >>
  /\ \E r \in nodeExecutions :
       /\ r.nodeId = 3
       /\ r.status = "COMPLETED"
       /\ ImagesOf(r.inputs) = <<LongUrl, DataUri>>
       /\ "prompt" \notin DOMAIN r.inputs

\* What incoming edge k writes on its own, into an empty bag.
EdgeAlone(k) == ApplyEdge(EmptyBag, Incoming[k], nodeOutputs)
WritersOf(f) == { k \in DOMAIN Incoming : f \in DOMAIN EdgeAlone(k) }

\* The images of the first k incoming edges, edge after edge.
RECURSIVE ImagesUpTo(_)
ImagesUpTo(k) == IF k = 0 THEN <<>> ELSE ImagesUpTo(k - 1) \o ImagesOf(EdgeAlone(k))

\* C30: a scalar field written by several incoming edges ends with the value
\* of the last of them in edge order; images holds what every edge added, in
\* edge order, a value that arrives twice being held twice.
C30_LastEdgeWins ==
  pc = "running" =>
    LET base == Assign(inputs, FindNode(CurrentId).config)
        final == ResolveInputs(inputs, FindNode(CurrentId).config, edges, CurrentId,
                               nodeOutputs)
    IN /\ \A f \in DOMAIN final \ {"images"} :
            IF WritersOf(f) = {} THEN f \in DOMAIN base /\ final[f] = base[f]
            ELSE final[f] = EdgeAlone(Highest(WritersOf(f)))[f]
       /\ ImagesOf(final) = ImagesOf(base) \o ImagesUpTo(Len(Incoming))

C30_Witness ==
  /\ pc = "done"
  /\ Len(nodes) = 2
  /\ edges = << [sourceId |-> 1, targetId |-> 2, targetHandle |-> "image"],
                [sourceId |-> 1, targetId |-> 2, targetHandle |-> "image_url"] >>
  /\ \E r \in nodeExecutions :
       /\ r.nodeId = 2
       /\ r.status = "COMPLETED"
       /\ Get(r.inputs, "image") = UrlA
       /\ ImagesOf(r.inputs) = <<UrlA, UrlA>>

\* The four values a crop node falls back to, in the order it reads them.
CropCandidates(ins) ==
  << Get(ins, "image"), Get(ins, "image_url"), FirstImage(ins), Get(ins, "url") >>

FirstValid(cands) ==
  LET hits == { k \in DOMAIN cands : isValidImage(cands[k]) }
  IN IF hits = {} THEN Undef
     ELSE cands[CHOOSE k \in hits : \A j \in hits : k <= j]

\* C31: a crop node without a valid croppedImageUrl outputs the first valid
\* image among inputs.image, inputs.image_url, inputs.images[0] and
\* inputs.url, passing over an earlier value that is no valid image, and
\* gives no_input only when none of the four is a valid image.
C31_CropFirstValidImage ==
  \A r \in nodeExecutions :
    (/\ r.nodeId \in NodeIdsOf(nodes)
     /\ NodeOf(r.nodeId).type = "crop"
     /\ r.status = "COMPLETED"
     /\ ~isValidImage(Get(NodeOf(r.nodeId).config, "croppedImageUrl")))
    => LET first == FirstValid(CropCandidates(r.inputs)) IN
         IF first = Undef
           THEN r.outputs = [output |-> Null, status |-> Status("no_input")]
         ELSE r.outputs = [output |-> first, url |-> first, image |-> first]

\* ------------------------------------------ two execute requests at a time
\* The second request keeps its own locals (nodes, edges, run, adjList,
\* inDegree, nodeOutputs are consts of POST); the tables are shared, and the
\* database gives the rows of the second run ids of their own.
PeerBase == 100

PeerExecutions(ns) ==
  { [id |-> PeerBase + k, nodeId |-> ns[k].id, status |-> "PENDING", error |-> Null,
     inputs |-> Null, outputs |-> Null] : k \in DOMAIN ns }

NodeIn(ns, nodeId) ==
  ns[CHOOSE k \in DOMAIN ns : ns[k].id = nodeId /\ \A j \in 1..(k - 1) : ns[j].id # nodeId]

PeerLoad ==
  /\ peer.pc = "idle"
  /\ peer' = [pc |-> "loaded", nodes |-> dbNodes, edges |-> dbEdges]
  /\ UNCHANGED <<storeVars, engineVars, timer2, polls2, editor, lastSave>>

PeerCreateRun ==
  /\ peer.pc = "loaded"
  /\ nodeExecutions' = nodeExecutions \cup PeerExecutions(peer.nodes)
  /\ peer' = [pc |-> "created", nodes |-> peer.nodes, edges |-> peer.edges,
              runStatus |-> "RUNNING",
              runExecs |-> [k \in DOMAIN peer.nodes |->
                              [id |-> PeerBase + k, nodeId |-> peer.nodes[k].id]]]
  /\ UNCHANGED <<storeVars, timer2, polls2, editor, lastSave, dbVars, runStatus, pc, route, nodes, edges,
                 inputs, runExecs, loopVars, response, request, queue>>

PeerSchedule ==
  /\ peer.pc = "created"
  /\ LET g == BuildGraph(peer.nodes, peer.edges)
         sorted == TopoSort(g)
     IN peer' = [pc |-> "loop", nodes |-> peer.nodes, edges |-> peer.edges,
                 runStatus |-> peer.runStatus, runExecs |-> peer.runExecs,
                 graph |-> [adjList |-> g.adjList, inDegree |-> sorted.inDegree],
                 executionOrder |-> sorted.order, nodeOutputs |-> EmptyBag, i |-> 1]
  /\ UNCHANGED <<storeVars, engineVars, timer2, polls2, editor, lastSave>>

PeerMarkRunning ==
  /\ peer.pc = "loop"
  /\ peer.i <= Len(peer.executionOrder)
  /\ nodeExecutions' = UpdateRow(ExecIdOf(peer.runExecs, peer.executionOrder[peer.i]),
                                 "RUNNING", Null, Null, Null)
  /\ peer' = [peer EXCEPT !.pc = "running"]
  /\ UNCHANGED <<storeVars, timer2, polls2, editor, lastSave, dbVars, runStatus, pc, route, nodes, edges,
                 inputs, runExecs, loopVars, response, request, queue>>

PeerExecute ==
  /\ peer.pc = "running"
  /\ LET nodeId == peer.executionOrder[peer.i]
         node == NodeIn(peer.nodes, nodeId)
         ins == ResolveInputs(EmptyBag, node.config, peer.edges, nodeId, peer.nodeOutputs)
         output == LocalOutput(node.type, ins, node.config)
     IN /\ nodeExecutions' = UpdateRow(ExecIdOf(peer.runExecs, nodeId), "COMPLETED",
                                       Null, ins, output)
        /\ peer' = [peer EXCEPT !.pc = "loop", !.i = peer.i + 1,
                                !.nodeOutputs = Put(peer.nodeOutputs, nodeId, output)]
  /\ UNCHANGED <<storeVars, timer2, polls2, editor, lastSave, dbVars, runStatus, pc, route, nodes, edges,
                 inputs, runExecs, loopVars, response, request, queue>>

PeerFinalize ==
  /\ peer.pc = "loop"
  /\ peer.i > Len(peer.executionOrder)
  /\ peer' = [peer EXCEPT
                !.pc = "done",
                !.runStatus =
                   IF \A k \in DOMAIN peer.runExecs :
                        peer.runExecs[k].nodeId \in DOMAIN peer.nodeOutputs
                     THEN "COMPLETED" ELSE "FAILED"]
  /\ UNCHANGED <<storeVars, engineVars, timer2, polls2, editor, lastSave>>

LocalKinds == { v \in Variants : v.type \in {"image", "crop"} }

InitTwoRuns ==
  \E n \in 0..MaxRunNodes :
    \E vs \in [1..n -> LocalKinds], es \in EdgesUpTo(1..n, 1..n, {NoHandle}, MaxRunEdges) :
      InitFrom(Definition(vs, es))

NextTwoRuns ==
  \/ ExecLoad
  \/ ExecCreateRun
  \/ ExecSchedule
  \/ MarkRunning
  \/ ExecuteLocal
  \/ Finalize
  \/ PeerLoad
  \/ PeerCreateRun
  \/ PeerSchedule
  \/ PeerMarkRunning
  \/ PeerExecute
  \/ PeerFinalize

SpecTwoRuns == InitTwoRuns /\ [][NextTwoRuns]_vars

\* What a run of the stored workflow yields when it is the only one: the
\* outputs of the nodes of the order, each from the outputs before it.
RECURSIVE OutputsAlone(_, _)
OutputsAlone(order, outs) ==
  IF order = <<>> THEN outs
  ELSE LET node == NodeIn(dbNodes, Head(order))
           ins == ResolveInputs(EmptyBag, node.config, dbEdges, Head(order), outs)
       IN OutputsAlone(Tail(order), Put(outs, Head(order),
                                        LocalOutput(node.type, ins, node.config)))

SortedAlone == TopoSort(BuildGraph(dbNodes, dbEdges))
ResultAlone == OutputsAlone(SortedAlone.order, EmptyBag)
StatusAlone ==
  IF NodeIdsOf(dbNodes) \subseteq DOMAIN ResultAlone THEN "COMPLETED" ELSE "FAILED"

\* The rows of a run, by the ids its create gave them.
RowsOfRun(execs) == { r \in nodeExecutions : \E k \in DOMAIN execs : execs[k].id = r.id }

\* The rows of a finished run are those of the run alone.
RowsAsAlone(execs) ==
  /\ Cardinality(RowsOfRun(execs)) = Len(dbNodes)
  /\ \A r \in RowsOfRun(execs) :
       IF r.nodeId \in DOMAIN ResultAlone
         THEN r.status = "COMPLETED" /\ r.outputs = ResultAlone[r.nodeId]
       ELSE r.status = "PENDING" /\ r.outputs = Null

\* C32: two runs whose steps interleave do not interfere: the outputs, the
\* in-degree table, the node execution statuses and the run status of each
\* are those of the run executed alone.
C32_RunsDoNotInterfere ==
  /\ (route = "execute" /\ pc = "done") =>
        /\ nodeOutputs = ResultAlone
        /\ graph.inDegree = SortedAlone.inDegree
        /\ RowsAsAlone(runExecs)
        /\ runStatus = StatusAlone
  /\ peer.pc = "done" =>
        /\ peer.nodeOutputs = ResultAlone
        /\ peer.graph.inDegree = SortedAlone.inDegree
        /\ RowsAsAlone(peer.runExecs)
        /\ peer.runStatus = StatusAlone
  /\ \A r \in nodeExecutions :
       r.status = "COMPLETED" => r.outputs = ResultAlone[r.nodeId]

C32_Witness ==
  /\ pc = "done"
  /\ peer.pc = "done"
  /\ Len(dbNodes) = 2
  /\ dbNodes[2].type = "crop"
  /\ Len(dbEdges) = 1
  /\ dbEdges[1].sourceId = 1
  /\ dbEdges[1].targetId = 2
  /\ Get(nodeOutputs[2], "image") = UrlA
  /\ Get(peer.nodeOutputs[2], "image") = UrlA
  /\ Cardinality(nodeExecutions) = 4
  /\ \A r \in nodeExecutions : r.status = "COMPLETED"

\* C33: when the start request throws or answers with a failure, startRun
\* records the message in errors, sets isRunning to false, leaves runId null
\* and starts no poll loop.
C33_StartFailure ==
  [][(startPc = "fetch" /\ startPc' = "idle") =>
        /\ Len(errors') = 1
        /\ isRunning' = FALSE
        /\ runId = Null
        /\ runId' = Null
        /\ timer' = timer
        /\ polls' = polls]_vars

C33_Witness ==
  /\ startPc = "idle"
  /\ errors = <<"Failed to start run">>
  /\ isRunning = FALSE
  /\ runId = Null
  /\ timer = "none"
  /\ polls = <<>>

\* ------------------------------------------------- saves beside a new run
\* Saves of workflows of a few nodes, with or without an edge from the first
\* node to the last.
MaxLinkedNodes == 2

LinkedDefinitions ==
  UNION { { Definition(vs, es) :
              vs \in [1..n -> SaveVariants],
              es \in EdgesUpTo({1}, {n}, {NoHandle}, 1) } :
          n \in 1..MaxLinkedNodes }

SaveLinked ==
  /\ \E userId \in SaveUsers, definition \in LinkedDefinitions :
       /\ SaveBy(userId, definition)
       /\ lastSave' = [userId |-> userId, status |-> SaveStatus(userId)]
  /\ UNCHANGED <<storeVars, timer2, polls2, peer, editor, queue, request, runStatus, pc, route, nodes, edges, inputs,
                 runExecs, loopVars, response>>

InitSaveRun == \E definition \in LinkedDefinitions : InitFrom(definition)

NextSaveRun ==
  \/ ExecLoad
  \/ ExecCreateRun
  \/ ExecSchedule
  \/ SaveLinked

SpecSaveRun == InitSaveRun /\ [][NextSaveRun]_vars

\* C34: a save request for the workflow by a user who is not its owner is
\* answered 403 and leaves the workflow's nodes, edges and definition and
\* the node executions of its runs as they were.  (Every step of the route
\* moves pc; a step that keeps it is a save.)
C34_ForeignSaveChangesNothing ==
  [][(pc' = pc /\ lastSave'.userId # Owner) =>
        /\ lastSave'.status = 403
        /\ UNCHANGED <<dbNodes, dbEdges, dbDefinition, nodeExecutions>>]_vars

C34_Witness ==
  /\ lastSave = [userId |-> "u2", status |-> 403]
  /\ Len(dbNodes) = 2
  /\ Len(dbEdges) = 1
  /\ Cardinality(nodeExecutions) = 2
  /\ runStatus = "RUNNING"

\* ------------------------------------------------ a run beside repeated saves
\* The editor saves the workflow again while the execute route serves a run.
\* The handler runs on: each of its steps is taken once it can be, and a
\* generation call returns or throws.
MaxResaveNodes == 2

ResaveDefinitions ==
  UNION { { Definition(vs, <<>>) : vs \in [1..n -> SaveVariants] } :
          n \in 1..MaxResaveNodes }

Resave ==
  /\ \E userId \in SaveUsers, definition \in ResaveDefinitions :
       /\ SaveBy(userId, definition)
       /\ lastSave' = [userId |-> userId, status |-> SaveStatus(userId)]
  /\ UNCHANGED <<storeVars, timer2, polls2, peer, editor, queue, request, runStatus, pc, route, nodes, edges, inputs,
                 runExecs, loopVars, response>>

InitEventually == \E definition \in ResaveDefinitions : InitFrom(definition)

NextEventually ==
  \/ ExecLoad
  \/ ExecCreateRun
  \/ ExecSchedule
  \/ MarkRunning
  \/ ExecuteLocal
  \/ ExecuteLlm
  \/ GenReturn
  \/ GenThrow
  \/ Finalize
  \/ Resave

SpecEventually ==
  /\ InitEventually
  /\ [][NextEventually]_vars
  /\ WF_vars(ExecCreateRun)
  /\ WF_vars(ExecSchedule)
  /\ WF_vars(MarkRunning)
  /\ WF_vars(ExecuteLocal)
  /\ WF_vars(ExecuteLlm)
  /\ WF_vars(GenReturn \/ GenThrow)
  /\ WF_vars(Finalize)

\* C36: every run the execute route creates eventually has status COMPLETED
\* or FAILED, whatever saves of the workflow come in between and also when
\* an update of a node-execution record fails.
C36_EveryRunEnds ==
  (runStatus = "RUNNING") ~> (runStatus \in {"COMPLETED", "FAILED"})

\* C37: a run of a workflow whose graph has a cycle ends FAILED and is never
\* COMPLETED: at finalization a node that is missing from the execution
\* order is missing from the output map.
C37_CyclicRunFails ==
  (route = "execute" /\ Cyclic /\ pc \in {"loop", "running", "gen", "done"}) =>
    /\ runStatus # "COMPLETED"
    /\ pc = "done" =>
         /\ runStatus = "FAILED"
         /\ \E v \in NodeIdsOf(nodes) :
              /\ Positions(v) = {}
              /\ v \notin DOMAIN nodeOutputs

C37_Witness ==
  /\ route = "execute"
  /\ pc = "done"
  /\ Cyclic
  /\ executionOrder # <<>>
  /\ runStatus = "FAILED"

\* The snapshot the store holds is that of a run with a terminal status.
TerminalPublished ==
  /\ "status" \in DOMAIN executionScope
  /\ executionScope.status \in RunTerminal

\* Callback k reads its answer, and no callback started before it has ended:
\* whichever callback published the snapshot held was started after k.
EarlierTickPublishes(k) ==
  /\ polls[k] = "json"
  /\ polls'[k] = "done"
  /\ executionScope' # executionScope \/ nodeStatuses' # nodeStatuses
  /\ \A j \in 1..(k - 1) : polls[j] # "done"

\* C38: once the poller has published the statuses of an answer with a
\* terminal run status, no answer of an earlier tick that arrives later
\* replaces them with a snapshot of the run before it ended.
C38_NoStaleSnapshot ==
  [][\A k \in DOMAIN polls :
       (TerminalPublished /\ EarlierTickPublishes(k)) =>
         executionScope'.status \in RunTerminal]_vars

\* ------------------------------------------- startRun beside a poll loop
\* startRun is called again while the interval of the first run is active.
\* pollRun keeps its interval in a local of the call, and each callback
\* fetches the run id of its own call.
MaxTicksAgain == 2

SecondRunId == Str(<<"r2">>)

loopFrame == <<engineVars, peer, editor, lastSave>>

StartRunAgain ==
  /\ startPc = "polling"
  /\ timer = "active"
  /\ runId' = Null
  /\ nodeStatuses' = EmptyBag
  /\ errors' = <<>>
  /\ isRunning' = TRUE
  /\ startPc' = "fetch2"
  /\ UNCHANGED <<executionScope, runs, timer, polls, listFetches, timer2, polls2, loopFrame>>

StartRunAgainOk ==
  /\ startPc = "fetch2"
  /\ runId' = SecondRunId
  /\ timer2' = "active"
  /\ startPc' = "polling2"
  /\ UNCHANGED <<isRunning, nodeStatuses, executionScope, errors, runs, timer, polls,
                 listFetches, polls2, loopFrame>>

StartRunAgainFail ==
  /\ startPc = "fetch2"
  /\ errors' = <<"Failed to start run">>
  /\ isRunning' = FALSE
  /\ startPc' = "failed2"
  /\ UNCHANGED <<runId, nodeStatuses, executionScope, runs, timer, polls, listFetches,
                 timer2, polls2, loopFrame>>

TickAgain ==
  /\ timer2 = "active"
  /\ Len(polls2) < MaxTicksAgain
  /\ polls2' = Append(polls2, "fetch")
  /\ UNCHANGED <<storeVars, timer2, loopFrame>>

PollAgainNotOk ==
  /\ \E k \in DOMAIN polls2 :
       /\ polls2[k] = "fetch"
       /\ polls2' = [polls2 EXCEPT ![k] = "done"]
  /\ UNCHANGED <<storeVars, timer2, loopFrame>>

PollAgainOk ==
  /\ \E k \in DOMAIN polls2 :
       /\ polls2[k] = "fetch"
       /\ polls2' = [polls2 EXCEPT ![k] = "json"]
  /\ UNCHANGED <<storeVars, timer2, loopFrame>>

PollAgainThrow ==
  /\ \E k \in DOMAIN polls2 :
       /\ polls2[k] \in { "fetch", "json" }
       /\ polls2' = [polls2 EXCEPT ![k] = "done"]
  /\ timer2' = "cleared"
  /\ isRunning' = FALSE
  /\ UNCHANGED <<runId, nodeStatuses, executionScope, errors, runs, startPc, timer, polls,
                 listFetches, loopFrame>>

PollAgainRun ==
  /\ \E k \in DOMAIN polls2 :
       /\ polls2[k] = "json"
       /\ polls2' = [polls2 EXCEPT ![k] = "done"]
  /\ \E run \in RunRecordsOf(SecondRunId) :
       /\ nodeStatuses' = NewNodeStatuses(run.nodeExecutions, EmptyBag)
       /\ executionScope' = run
       /\ IF run.status \in StopStatuses
            THEN /\ timer2' = "cleared"
                 /\ isRunning' = FALSE
                 /\ listFetches' = listFetches + 1
          ELSE UNCHANGED <<timer2, isRunning, listFetches>>
  /\ UNCHANGED <<runId, errors, runs, startPc, timer, polls, loopFrame>>

NextTwoLoops ==
  \/ StartRun
  \/ StartRunOk
  \/ StartRunFail
  \/ Tick
  \/ PollNotOk
  \/ PollOk
  \/ PollThrow
  \/ PollRun
  \/ FetchRunsOk
  \/ FetchRunsFail
  \/ StartRunAgain
  \/ StartRunAgainOk
  \/ StartRunAgainFail
  \/ TickAgain
  \/ PollAgainNotOk
  \/ PollAgainOk
  \/ PollAgainThrow
  \/ PollAgainRun

SpecTwoLoops == InitPoll /\ [][NextTwoLoops]_vars

\* A callback of either interval reads its answer and publishes it.
Publishes ==
  /\ \/ \E k \in DOMAIN polls : polls[k] = "json" /\ polls'[k] = "done"
     \/ \E k \in DOMAIN polls2 : polls2[k] = "json" /\ polls2'[k] = "done"
  /\ executionScope' # executionScope \/ nodeStatuses' # nodeStatuses

\* C39: when startRun is called while the poll loop of an earlier run is
\* active, the earlier loop no longer affects the store: what a later tick
\* publishes is the snapshot of the run whose id is the store's runId.
C39_EarlierLoopSilenced ==
  [][(startPc = "polling2" /\ Publishes) =>
       /\ executionScope'.id = runId'
       /\ nodeStatuses' = NewNodeStatuses(executionScope'.nodeExecutions, EmptyBag)]_vars

\* ------------------------------------------------------------ editor store
MaxEditorNodes == 2
MaxEdits == 3

\* Keep only last 50 states
HistoryLimit == 50

EditorKinds == { "text", "image" }
ConnectHandles == { "prompt", "image-0" }
ImageDashHandles == { "image-0", "image-1", "image-input" }

\* generateId and the edge id: a value no node or edge of the store has.
Largest(S) == IF S = {} THEN 0 ELSE CHOOSE x \in S : \A y \in S : y <= x
IdsIn(items) == { items[k].id : k \in DOMAIN items }
FreshNodeId(ed) ==
  1 + Largest(IdsIn(ed.nodes)
              \cup UNION { IdsIn(ed.history[k].nodes) : k \in DOMAIN ed.history })
FreshEdgeId(ed) ==
  1 + Largest(IdsIn(ed.edges)
              \cup UNION { IdsIn(ed.history[k].edges) : k \in DOMAIN ed.history })

\* saveHistory: the entries after historyIndex are dropped and the present
\* nodes and edges are pushed.
saveHistory(ed) ==
  LET pushed == Append(SubSeq(ed.history, 1, ed.historyIndex + 1),
                       [nodes |-> ed.nodes, edges |-> ed.edges])
      newHistory == IF Len(pushed) > HistoryLimit THEN Tail(pushed) ELSE pushed
  IN [ed EXCEPT !.history = newHistory, !.historyIndex = Len(newHistory) - 1]

SourceType(ed, connection) ==
  IF \E k \in DOMAIN ed.nodes : ed.nodes[k].id = connection.source
    THEN ed.nodes[CHOOSE k \in DOMAIN ed.nodes : ed.nodes[k].id = connection.source].type
  ELSE "none"

\* A connection added without a look at the edges the handle already has.
onConnectUnchecked(ed, connection) ==
  LET type == SourceType(ed, connection)
      isValidImageSource ==
        type = "image" \/ (type = "llm" /\ connection.sourceHandle = "image-output")
  IN IF connection.targetHandle \in ImageDashHandles /\ ~isValidImageSource THEN ed
     ELSE IF connection.targetHandle = "prompt" /\ type = "image" THEN ed
     ELSE LET newEdge == [id |-> FreshEdgeId(ed), source |-> connection.source,
                          target |-> connection.target,
                          sourceHandle |-> connection.sourceHandle,
                          targetHandle |-> connection.targetHandle]
          IN [saveHistory(ed) EXCEPT !.edges = Append(ed.edges, newEdge)]

onConnect(ed, connection) ==
  LET existingConnection ==
        \E k \in DOMAIN ed.edges :
          /\ ed.edges[k].target = connection.target
          /\ ed.edges[k].targetHandle = connection.targetHandle
      type == SourceType(ed, connection)
      isValidImageSource ==
        type = "image" \/ (type = "llm" /\ connection.sourceHandle = "image-output")
  IN IF existingConnection THEN ed
     ELSE IF connection.targetHandle \in ImageDashHandles /\ ~isValidImageSource THEN ed
     ELSE IF connection.targetHandle = "prompt" /\ type = "image" THEN ed
     ELSE LET newEdge == [id |-> FreshEdgeId(ed), source |-> connection.source,
                          target |-> connection.target,
                          sourceHandle |-> connection.sourceHandle,
                          targetHandle |-> connection.targetHandle]
          IN [saveHistory(ed) EXCEPT !.edges = Append(ed.edges, newEdge)]

Connections(ed) ==
  [source : IdsIn(ed.nodes), target : IdsIn(ed.nodes), sourceHandle : {"output"},
   targetHandle : ConnectHandles]

editorFrame == <<storeVars, engineVars, timer2, polls2, peer, lastSave>>

OnConnect ==
  /\ Len(editor.history) < MaxEdits
  /\ \E connection \in Connections(editor) : editor' = onConnect(editor, connection)
  /\ UNCHANGED editorFrame

\* The editor with nodes on the canvas and at most one edge, before any edit.
EditorStates ==
  UNION { { [nodes |-> [k \in 1..n |-> [id |-> k, type |-> types[k]]],
             edges |-> es, history |-> <<>>, historyIndex |-> -1] :
              types \in [1..n -> EditorKinds],
              es \in SeqsUpTo([id : {1}, source : 1..n, target : 1..n,
                               sourceHandle : {"output"},
                               targetHandle : ConnectHandles], 1) } :
          n \in 1..MaxEditorNodes }

InitConnect ==
  /\ InitBeside(Definition(<<>>, <<>>))
  /\ editor \in EditorStates

SpecConnect == InitConnect /\ [][OnConnect]_vars

\* C35: from edges of which no two share target node and target handle,
\* every sequence of onConnect calls keeps at most one edge for each target
\* node and target handle, and a call that adds no edge leaves the history
\* as it was.
C35_OneEdgePerTargetHandle ==
  /\ [](\A j, k \in DOMAIN editor.edges :
          (/\ editor.edges[j].target = editor.edges[k].target
           /\ editor.edges[j].targetHandle = editor.edges[k].targetHandle) => j = k)
  /\ [][editor'.edges = editor.edges =>
          (editor'.history = editor.history
             /\ editor'.historyIndex = editor.historyIndex)]_vars

C35_Witness ==
  /\ Len(editor.nodes) = 2
  /\ Len(editor.edges) = 3
  /\ Len(editor.history) = 2
  /\ editor.edges[1].target = editor.edges[2].target
  /\ editor.edges[1].targetHandle # editor.edges[2].targetHandle
  /\ \E connection \in Connections(editor) :
       /\ connection.target = editor.edges[1].target
       /\ connection.targetHandle = editor.edges[1].targetHandle
       /\ connection.source # editor.edges[1].source
       /\ onConnect(editor, connection) = editor

\* ------------------------------------------------- edits, undo and redo
addNode(ed, type) ==
  LET saved == saveHistory(ed)
  IN [saved EXCEPT !.nodes = Append(saved.nodes, [id |-> FreshNodeId(ed), type |-> type])]

deleteNode(ed, nodeId) ==
  LET saved == saveHistory(ed)
  IN [saved EXCEPT
        !.nodes = SelectSeq(saved.nodes, LAMBDA node : node.id # nodeId),
        !.edges = SelectSeq(saved.edges,
                            LAMBDA edge : edge.source # nodeId /\ edge.target # nodeId)]

deleteEdgeByHandle(ed, nodeId, handleId, handleType) ==
  LET hits == { k \in DOMAIN ed.edges :
                  IF handleType = "target"
                    THEN ed.edges[k].target = nodeId /\ ed.edges[k].targetHandle = handleId
                  ELSE ed.edges[k].source = nodeId /\ ed.edges[k].sourceHandle = handleId }
  IN IF hits = {} THEN ed
     ELSE LET edgeToDelete == ed.edges[CHOOSE k \in hits : \A j \in hits : k <= j]
          IN [saveHistory(ed) EXCEPT
                !.edges = SelectSeq(ed.edges, LAMBDA edge : edge.id # edgeToDelete.id)]

undo(ed) ==
  IF ed.historyIndex > 0
    THEN LET prevState == ed.history[ed.historyIndex] IN
           [ed EXCEPT !.nodes = prevState.nodes, !.edges = prevState.edges,
                      !.historyIndex = ed.historyIndex - 1]
  ELSE ed

redo(ed) ==
  IF ed.historyIndex < Len(ed.history) - 1
    THEN LET nextState == ed.history[ed.historyIndex + 2] IN
           [ed EXCEPT !.nodes = nextState.nodes, !.edges = nextState.edges,
                      !.historyIndex = ed.historyIndex + 1]
  ELSE ed

canUndo(ed) == ed.historyIndex > 0

AddNode ==
  /\ Len(editor.history) < MaxEdits
  /\ Len(editor.nodes) < MaxEditorNodes
  /\ \E type \in EditorKinds : editor' = addNode(editor, type)
  /\ UNCHANGED editorFrame

DeleteNode ==
  /\ Len(editor.history) < MaxEdits
  /\ \E nodeId \in IdsIn(editor.nodes) : editor' = deleteNode(editor, nodeId)
  /\ UNCHANGED editorFrame

DeleteEdgeByHandle ==
  /\ Len(editor.history) < MaxEdits
  /\ \E nodeId \in IdsIn(editor.nodes), handleId \in ConnectHandles \cup {"output"},
        handleType \in { "target", "source" } :
       editor' = deleteEdgeByHandle(editor, nodeId, handleId, handleType)
  /\ UNCHANGED editorFrame

Undo ==
  /\ editor' = undo(editor)
  /\ UNCHANGED editorFrame

Redo ==
  /\ editor' = redo(editor)
  /\ UNCHANGED editorFrame

NextHistory ==
  \/ AddNode
  \/ DeleteNode
  \/ OnConnect
  \/ DeleteEdgeByHandle
  \/ Undo
  \/ Redo

SpecHistory == InitFrom(Definition(<<>>, <<>>)) /\ [][NextHistory]_vars

\* C40: after edits that record history, an undo that takes effect followed
\* at once by redo gives back the nodes and edges of just before the undo.
C40_UndoThenRedoRestores ==
  canUndo(editor) =>
    /\ redo(undo(editor)).nodes = editor.nodes
    /\ redo(undo(editor)).edges = editor.edges

====
